---- MODULE Spec2Model ----
(***************************************************************************)
(* LogNog In agent: the durable event buffer (buffer.py), the HTTP shipper *)
(* (shipper.py) and the log file tailer (watcher.py).                      *)
(***************************************************************************)
EXTENDS Integers, Sequences, FiniteSets, TLC

\* ------------------------------------------------------------------ bounds
MaxEnq == 2
MaxClock == 1
MaxBatchSize == 2
MaxAttempts == 2
AttemptCap == MaxAttempts + 1
MaxLen == 4
MaxWrites == 3

\* ------------------------------------------------------- program constants
retry_backoff_seconds == 2
batch_interval_seconds == 5
MaxRetryDelay == 60

\* from this many failures on the doubled delay stays at MaxRetryDelay
StreakCap == 5

Files == {"a", "b"}
Kinds == {"log", "fim"}
Threads == {"w", "c"}

CONNECTED == "connected"
DISCONNECTED == "disconnected"
CONNECTING == "connecting"
ERROR == "error"
ConnectionStatus == {CONNECTED, DISCONNECTED, CONNECTING, ERROR}

ServerModes == {"ok", "auth", "err", "down"}

\* the watched paths (all match the pattern), the characters of a file and
\* the pieces of text a writer appends
Paths == {"p", "q"}
NL == "\n"
Chunks == {<<"a", NL>>, <<"b", NL>>, <<"a">>, <<" ", NL>>}

VARIABLES
    events,        \* rows of the SQLite table events
    nextId,        \* next AUTOINCREMENT id (sqlite_sequence)
    apiKey,        \* config.api_key is set
    batch_size,    \* config.batch_size
    serverMode,    \* what the server answers at present
    status,        \* HTTPShipper._status
    running,       \* HTTPShipper._running
    stopEvent,     \* HTTPShipper._stop_event
    pc,            \* position of the worker thread "w" and the caller thread "c"
    setval,        \* per thread: the argument of its status setter call
    setret,        \* per thread: where it continues after the setter
    batch,         \* the worker's local variable batch
    retryDelay,    \* the worker's local variable retry_delay
    outcome,       \* the result of the worker's last send attempt
    observed,      \* the last value handed to on_status_change, "none" before
    obsRepeat,     \* on_status_change got the same value twice in a row
    received,      \* the entries of the POSTs answered 200, in order
    restarted,     \* the process was killed and started again
    fetched,       \* verify_baseline in progress: the rows its query returned
    content,       \* per path: the characters of the file
    present,       \* the paths at which a file exists
    positions,     \* LogFileHandler._file_positions
    watching,      \* FileWatcher._running
    pending,       \* the event queue of the tailer's observer
    emitted,       \* the log events handed to on_event, in order
    preLen,        \* per path: the size of the file when the watcher started
    gen,           \* per path: how often the file was replaced since then
    lastRead,      \* the last _read_new_lines: path, stored offset, size
    writes,        \* number of writes so far
    watch_paths,   \* config.watch_paths is not empty
    fim_enabled,   \* config.fim_enabled and config.fim_paths is not empty
    wall,          \* what the wall clock reads at present
    paused,        \* Agent._paused
    dropped,       \* the on_event calls that returned at the pause gate
    agentPc,       \* where the thread that runs Agent.start / Agent.stop is:
                   \* <<"idle", 0>>, <<"start", i>>, <<"stop", i>>, <<"release", 0>>
    agentRunning,  \* Agent._running
    lockHolder,    \* the processes that hold the lock on the lock file
    lockFile,      \* the contents of the lock file, "absent" before it exists
    other,         \* the second agent process: "down", "up", or "raised" at start
    lastCall,      \* the latest start / stop calls of this process, newest last
    fimRunning,    \* FileIntegrityMonitor._running
    fimPending,    \* the event queue of the FIM's observer
    baselines,     \* rows of the SQLite table baselines
    fimCount,      \* the number of FIM events handed to on_event so far
    verifyOut,     \* the list the last verify_baseline returned
    fimLast,       \* the last FIM handler call: event kind, path, its on_event calls
    lastSet,       \* per path: the last set_baseline not followed by a remove
    st_mode,       \* per path: st_mode of the file at this path
    lastNotificationCheck, \* HTTPShipper._last_notification_check, 0 for None
    notifCycle,    \* the last notification poll: its GET and the calls it made
    streak         \* the send attempts that failed in a row, up to StreakCap

bufVars == <<events, nextId>>
moreVars == <<st_mode, lastNotificationCheck, notifCycle, streak>>
confVars == <<apiKey, batch_size, watch_paths, fim_enabled, wall>>
cfgVars == <<confVars, moreVars>>
gateVars == <<paused, dropped>>
supVars == <<agentPc, agentRunning, lockHolder, lockFile, other, lastCall>>
fimVars == <<fimRunning, baselines, fimCount, verifyOut, fimLast, lastSet>>
extVars == <<cfgVars, gateVars, supVars, fimVars>>
progVars == <<bufVars, cfgVars, gateVars, fimVars>>
shipVars == <<status, running, stopEvent, pc, setval, setret, batch, retryDelay,
              outcome, observed, obsRepeat>>
histVars == <<received, restarted, fetched>>
fsVars == <<content, present, gen, writes>>
tailVars == <<content, present, positions, watching, pending, emitted, preLen,
              gen, lastRead, writes, fimPending>>
vars == <<events, nextId, apiKey, batch_size, serverMode, status, running,
          stopEvent, pc, setval, setret, batch, retryDelay, outcome, observed,
          obsRepeat, received, restarted, content, present, positions,
          watching, pending, emitted, preLen, gen, lastRead, writes,
          watch_paths, fim_enabled, wall, paused, dropped, agentPc, agentRunning,
          lockHolder, lockFile, other, lastCall, fimRunning, fimPending,
          baselines, fimCount, verifyOut, fimLast, lastSet, st_mode,
          lastNotificationCheck, notifCycle, streak, fetched>>

\* --------------------------------------------------------------- buffer.py
Min(a, b) == IF a < b THEN a ELSE b

Ids(rows) == {e.id : e \in rows}

\* ORDER BY created_at ASC: the row that comes first; idx_events_created
\* lists rows of equal created_at by rowid.
FirstRow(rows) ==
    CHOOSE e \in rows : \A o \in rows :
        \/ e.created_at < o.created_at
        \/ e.created_at = o.created_at /\ e.id <= o.id

RECURSIVE OrderByCreatedAt(_)
OrderByCreatedAt(rows) ==
    IF rows = {} THEN <<>>
    ELSE LET f == FirstRow(rows) IN <<f>> \o OrderByCreatedAt(rows \ {f})

\* mutant: the table is created anew on every open
init_db_recreate(exists, rows) == {}

\* CREATE TABLE IF NOT EXISTS events
init_db(exists, rows) == IF exists THEN rows ELSE {}

\* INSERT INTO events (event_type, data, created_at); attempts DEFAULT 0
Insert(rows, id, kind, data, now) ==
    rows \cup {[id |-> id, event_type |-> kind, data |-> data,
                created_at |-> now, attempts |-> 0]}

\* mutant: the query skips the first row (OFFSET 1)
get_batch_offset(rows, limit) ==
    LET all == OrderByCreatedAt(rows)
        n == IF Len(all) = 0 THEN 0 ELSE Min(limit, Len(all) - 1)
    IN [i \in 1..n |-> [id |-> all[i + 1].id, event_type |-> all[i + 1].event_type,
                        data |-> all[i + 1].data]]

\* SELECT id, event_type, data FROM events ORDER BY created_at ASC LIMIT ?
get_batch(rows, limit) ==
    LET all == OrderByCreatedAt(rows)
        n == Min(limit, Len(all))
    IN [i \in 1..n |-> [id |-> all[i].id, event_type |-> all[i].event_type,
                        data |-> all[i].data]]

BatchIds(b) == {b[i].id : i \in 1..Len(b)}

\* the ids that were part of a POST answered 200
Acked == BatchIds(received)

\* DELETE FROM events WHERE id IN (...)
remove_events(rows, event_ids) == {e \in rows : e.id \notin event_ids}

\* mutant: a failed batch is deleted instead of counted
increment_attempts_delete(rows, event_ids) == {e \in rows : e.id \notin event_ids}

\* UPDATE events SET attempts = attempts + 1 WHERE id IN (...)
\* (the counter is capped at AttemptCap, which stands for every larger value)
increment_attempts(rows, event_ids) ==
    {IF e.id \in event_ids THEN [e EXCEPT !.attempts = Min(@ + 1, AttemptCap)] ELSE e
        : e \in rows}

\* DELETE FROM events WHERE attempts >= ?
remove_stale_events(rows, max_attempts) == {e \in rows : e.attempts < max_attempts}

\* SELECT COUNT(*) FROM events
count(rows) == Cardinality(rows)

\* ------------------------------------------------------------------- Init
\* no verify_baseline call is in progress
NoFetch == [active |-> FALSE, rows |-> <<>>]

NoRead == [file_path |-> "none", pos |-> 0, size |-> 0]

NoCall == [kind |-> "none", file_path |-> "none", did |-> "none", events |-> <<>>]

\* FileWatcher.__init__: not running, no handler, no offsets
WatcherInit ==
    /\ positions = <<>>
    /\ watching = FALSE
    /\ pending = <<>>
    /\ emitted = <<>>
    /\ preLen = [f \in Paths |-> 0]
    /\ gen = [f \in Paths |-> 0]
    /\ lastRead = NoRead
    /\ writes = 0

\* EventBuffer.__init__ on a new file and HTTPShipper.__init__
ShipperInit ==
    /\ events = init_db(FALSE, {})
    /\ nextId = 1
    /\ status = DISCONNECTED
    /\ running = FALSE
    /\ stopEvent = FALSE
    /\ pc = [t \in Threads |-> IF t = "w" THEN "none" ELSE "idle"]
    /\ setval = [t \in Threads |-> DISCONNECTED]
    /\ setret = [t \in Threads |-> "idle"]
    /\ batch = <<>>
    /\ retryDelay = retry_backoff_seconds
    /\ outcome = "none"
    /\ observed = "none"
    /\ obsRepeat = FALSE
    /\ received = <<>>
    /\ restarted = FALSE
    /\ fetched = NoFetch

\* no notification poll was made yet
NoCycle ==
    [at |-> 0, answer |-> "none", notifications |-> <<>>, calls |-> <<>>,
     before |-> 0, beforeAnswer |-> "none"]

\* the modes of a regular file that its owner can and cannot read
Readable == "0o100644"
Unreadable == "0o100000"

\* HTTPShipper.__init__ (_last_notification_check = None);
\* the files are readable
MoreInit ==
    /\ st_mode = [f \in Paths |-> Readable]
    /\ lastNotificationCheck = 0
    /\ notifCycle = NoCycle
    /\ streak = 0

\* Agent.__init__: not running, not paused; no process holds the lock
AgentInit ==
    /\ paused = FALSE
    /\ dropped = {}
    /\ agentPc = <<"idle", 0>>
    /\ agentRunning = FALSE
    /\ lockHolder = {}
    /\ lockFile = "absent"
    /\ other = "down"
    /\ lastCall = <<>>

\* FileIntegrityMonitor.__init__ and BaselineDatabase.__init__ on a new file
FimInit ==
    /\ fimRunning = FALSE
    /\ fimPending = <<>>
    /\ baselines = {}
    /\ fimCount = 0
    /\ verifyOut = <<>>
    /\ fimLast = NoCall
    /\ lastSet = [f \in Paths |-> <<>>]

Init ==
    /\ apiKey \in BOOLEAN
    /\ batch_size \in 1..MaxBatchSize
    /\ watch_paths = TRUE
    /\ fim_enabled = TRUE
    /\ wall = 0
    /\ MoreInit
    /\ serverMode \in ServerModes
    /\ ShipperInit
    /\ content = [f \in Paths |-> <<>>]
    /\ present = {}
    /\ WatcherInit
    /\ AgentInit
    /\ FimInit

\* ------------------------------------------------ enqueue (producer threads)
\* EventBuffer.add_log_event / add_fim_event: one INSERT under the lock,
\* created_at is the wall clock read at the call. The record's data names its
\* file and the place of its line in the order the producer emitted them.
\* mutant: INTEGER PRIMARY KEY without AUTOINCREMENT, the largest id in the
\* table plus one
lastrowid_reuse(seq, rows) ==
    IF rows = {} THEN 1
    ELSE (CHOOSE e \in rows : \A o \in rows : o.id <= e.id).id + 1

\* id INTEGER PRIMARY KEY AUTOINCREMENT: one more than the largest id the
\* table ever had (seq is that id plus one), whatever was deleted since
lastrowid(seq, rows) ==
    IF rows = {} THEN seq
    ELSE LET top == (CHOOSE e \in rows : \A o \in rows : o.id <= e.id).id + 1
         IN IF top > seq THEN top ELSE seq

AddEvent(kind, f, now) ==
    /\ nextId <= MaxEnq
    /\ LET id == lastrowid(nextId, events) IN
        /\ events' = Insert(events, id, kind, [file_path |-> f, line |-> nextId], now)
        /\ nextId' = id + 1
    /\ UNCHANGED <<tailVars, extVars, serverMode, shipVars, histVars>>

add_log_event(f) == \E now \in 0..MaxClock : AddEvent("log", f, now)

add_fim_event == \E now \in 0..MaxClock : AddEvent("fim", "a", now)

\* ------------------------------------------------ HTTPShipper.status setter
\* self.status = value, started by thread t, which continues at ret
SetterCall(t, value, ret) ==
    /\ pc' = [pc EXCEPT ![t] = "set_check"]
    /\ setval' = [setval EXCEPT ![t] = value]
    /\ setret' = [setret EXCEPT ![t] = ret]

\* the setter returns to its caller
SetterReturn(t) ==
    /\ pc' = [pc EXCEPT ![t] = setret[t]]
    /\ setval' = [setval EXCEPT ![t] = DISCONNECTED]
    /\ setret' = [setret EXCEPT ![t] = "idle"]

\* if self._status != value:
status_check(t) ==
    /\ pc[t] = "set_check"
    /\ IF status # setval[t]
       THEN pc' = [pc EXCEPT ![t] = "set_assign"] /\ UNCHANGED <<setval, setret>>
       ELSE SetterReturn(t)
    /\ UNCHANGED <<tailVars, bufVars, extVars, serverMode, status, running, stopEvent,
                   batch, retryDelay, outcome, observed, obsRepeat, histVars>>

\* self._status = value
status_assign(t) ==
    /\ pc[t] = "set_assign"
    /\ status' = setval[t]
    /\ pc' = [pc EXCEPT ![t] = "set_notify"]
    /\ UNCHANGED <<tailVars, bufVars, extVars, serverMode, running, stopEvent, setval,
                   setret, batch, retryDelay, outcome, observed, obsRepeat,
                   histVars>>

\* self.on_status_change(value)
status_notify(t) ==
    /\ pc[t] = "set_notify"
    /\ observed' = setval[t]
    /\ obsRepeat' = (obsRepeat \/ observed = setval[t])
    /\ SetterReturn(t)
    /\ UNCHANGED <<tailVars, bufVars, extVars, serverMode, status, running, stopEvent,
                   batch, retryDelay, outcome, histVars>>

\* ------------------------------------------- HTTPShipper._async_loop (worker)
\* while not self._stop_event.is_set(): leaves the loop
async_loop_exit ==
    /\ pc["w"] = "loop"
    /\ stopEvent
    /\ pc' = [pc EXCEPT !["w"] = "exited"]
    /\ UNCHANGED <<tailVars, bufVars, extVars, serverMode, status, running, stopEvent,
                   setval, setret, batch, retryDelay, outcome, observed,
                   obsRepeat, histVars>>

\* batch = get_batch(batch_size); a non-empty batch enters _send_batch, which
\* without an API key sets ERROR and returns False, else sets CONNECTING and posts
async_loop_send ==
    /\ pc["w"] = "loop"
    /\ ~stopEvent
    /\ LET b == get_batch(events, batch_size) IN
        /\ b # <<>>
        /\ batch' = b
        /\ IF apiKey
           THEN /\ SetterCall("w", CONNECTING, "post")
                /\ UNCHANGED outcome
           ELSE /\ SetterCall("w", ERROR, "failed")
                /\ outcome' = "nokey"
    /\ UNCHANGED <<tailVars, bufVars, extVars, serverMode, status, running, stopEvent,
                   retryDelay, observed, obsRepeat, histVars>>

\* mutant: an empty batch always probes the connection
async_loop_idle_always ==
    /\ pc["w"] = "loop"
    /\ ~stopEvent
    /\ get_batch(events, batch_size) = <<>>
    /\ UNCHANGED batch
    /\ pc' = [pc EXCEPT !["w"] = "probe"]
    /\ UNCHANGED <<tailVars, bufVars, extVars, serverMode, status, running, stopEvent,
                   setval, setret, retryDelay, outcome, observed, obsRepeat,
                   histVars>>

\* an empty batch: probe the connection unless CONNECTED, then wait
async_loop_idle ==
    /\ pc["w"] = "loop"
    /\ ~stopEvent
    /\ get_batch(events, batch_size) = <<>>
    /\ UNCHANGED batch
    /\ pc' = [pc EXCEPT !["w"] = IF status # CONNECTED THEN "probe" ELSE "loop"]
    /\ UNCHANGED <<tailVars, bufVars, extVars, serverMode, status, running, stopEvent,
                   setval, setret, retryDelay, outcome, observed, obsRepeat,
                   histVars>>

PostOutcomes(mode) ==
    CASE mode = "ok" -> {"200"}
      [] mode = "auth" -> {"401"}
      [] mode = "err" -> {"5xx", "other"}
      [] mode = "down" -> {"transport"}

\* mutant: every failure is reported as ERROR
FailureStatus_error(o) == ERROR

\* the status _send_batch sets for a response that is not 200
FailureStatus(o) == IF o = "transport" THEN DISCONNECTED ELSE ERROR

\* wait_time = self.config.batch_interval_seconds if batch else 1.0
wait_time(b) == IF b # <<>> THEN batch_interval_seconds ELSE 1

\* response 200: _send_batch returns True; the loop removes the batch, resets
\* the backoff and sets CONNECTED
send_batch_ok ==
    /\ pc["w"] = "post"
    /\ "200" \in PostOutcomes(serverMode)
    /\ events' = remove_events(events, BatchIds(batch))
    /\ retryDelay' = retry_backoff_seconds
    /\ received' = received \o batch
    /\ batch' = <<>>
    /\ SetterCall("w", CONNECTED, "loop")
    /\ streak' = 0
    /\ UNCHANGED <<tailVars, nextId, confVars, st_mode, lastNotificationCheck,
                   notifCycle, gateVars, supVars, fimVars, serverMode, status,
                   running, stopEvent, outcome, observed, obsRepeat, restarted,
                   fetched>>

\* any other response or exception: _send_batch sets the status, returns False
send_batch_fail ==
    /\ pc["w"] = "post"
    /\ \E o \in PostOutcomes(serverMode) \ {"200"} :
        /\ outcome' = o
        /\ SetterCall("w", FailureStatus(o), "failed")
    /\ UNCHANGED <<tailVars, bufVars, extVars, serverMode, status, running, stopEvent,
                   batch, retryDelay, observed, obsRepeat, histVars>>

\* success is False: increment_attempts(event_ids); retry_delay doubles; the
\* iteration ends with a wait of wait_time(batch)
async_loop_failed ==
    /\ pc["w"] = "failed"
    /\ events' = increment_attempts(events, BatchIds(batch))
    /\ retryDelay' = Min(retryDelay * 2, MaxRetryDelay)
    /\ pc' = [pc EXCEPT !["w"] = "loop"]
    /\ batch' = <<>>
    /\ outcome' = "none"
    /\ streak' = Min(streak + 1, StreakCap)
    /\ UNCHANGED <<tailVars, nextId, confVars, st_mode, lastNotificationCheck,
                   notifCycle, gateVars, supVars, fimVars, serverMode, status,
                   running, stopEvent, setval, setret, observed, obsRepeat,
                   histVars>>

\* _check_connection: GET /health; 200 sets CONNECTED, all else DISCONNECTED
HealthOk(mode) ==
    CASE mode = "ok" -> {TRUE}
      [] mode = "auth" -> {TRUE}
      [] mode = "err" -> {TRUE, FALSE}
      [] mode = "down" -> {FALSE}

check_connection ==
    /\ pc["w"] = "probe"
    /\ \E ok \in HealthOk(serverMode) :
        SetterCall("w", IF ok THEN CONNECTED ELSE DISCONNECTED, "loop")
    /\ UNCHANGED <<tailVars, bufVars, extVars, serverMode, status, running, stopEvent,
                   batch, retryDelay, outcome, observed, obsRepeat, histVars>>

\* ------------------------------------- HTTPShipper._check_notifications
\* the least time between two polls, in seconds
PollInterval == 30

\* the notifications a server answers with, and what a GET and an ack can do
Notifications ==
    {[id |-> "n1", title |-> "T", message |-> "M", severity |-> "high"],
     [id |-> "n2", title |-> "U", message |-> "N", severity |-> "low"]}

MaxNotif == 2

NotifLists == UNION {[1..n -> Notifications] : n \in 0..MaxNotif}

GetAnswers(mode) ==
    CASE mode = "ok" -> {"200"}
      [] mode = "auth" -> {"other"}
      [] mode = "err" -> {"200", "other"}
      [] mode = "down" -> {"exception"}

AckOutcomes == {"acked", "exception"}

\* mutant: every call polls
poll_due_always(last, now) == TRUE

\* not (self._last_notification_check and (now - last) < 30); None is 0
poll_due(last, now) == ~(last # 0 /\ (now - last) < PollInterval)

\* mutant: an ack that fails ends the loop
RECURSIVE notify_loop_abort(_, _, _)
notify_loop_abort(notifications, acks, i) ==
    IF i > Len(notifications) THEN <<>>
    ELSE LET notif == notifications[i] IN
         <<<<"on_notification", notif.title, notif.message, notif.severity>>,
           <<"ack", notif.id, acks[i]>>>>
         \o (IF acks[i] = "exception" THEN <<>>
             ELSE notify_loop_abort(notifications, acks, i + 1))

\* for notif in notifications: on_notification(title, message, severity),
\* then _ack_notification(notif["id"]), which catches what its POST raises
RECURSIVE notify_loop(_, _, _)
notify_loop(notifications, acks, i) ==
    IF i > Len(notifications) THEN <<>>
    ELSE LET notif == notifications[i] IN
         <<<<"on_notification", notif.title, notif.message, notif.severity>>,
           <<"ack", notif.id, acks[i]>>>>
         \o notify_loop(notifications, acks, i + 1)

\* if self._status == CONNECTED: await self._check_notifications(client), at
\* the end of a loop iteration; the callback is the one Agent passes in.
\* Returns without a GET when there is no API key or the last poll is less
\* than 30 s ago; else notes the time, sends the GET and, on 200, goes
\* through the list
check_notifications ==
    /\ pc["w"] = "loop"
    /\ status = CONNECTED
    /\ apiKey
    /\ poll_due(lastNotificationCheck, wall)
    /\ lastNotificationCheck' = wall
    /\ \E answer \in GetAnswers(serverMode) :
          IF answer = "200"
          THEN \E l \in NotifLists : \E acks \in [1..Len(l) -> AckOutcomes] :
                  notifCycle' = [at |-> wall, answer |-> answer,
                                 notifications |-> l,
                                 calls |-> notify_loop(l, acks, 1),
                                 before |-> lastNotificationCheck,
                                 beforeAnswer |-> notifCycle.answer]
          ELSE notifCycle' = [at |-> wall, answer |-> answer,
                              notifications |-> <<>>, calls |-> <<>>,
                              before |-> lastNotificationCheck,
                              beforeAnswer |-> notifCycle.answer]
    /\ UNCHANGED <<tailVars, bufVars, confVars, st_mode, streak, gateVars,
                   supVars, fimVars, serverMode, shipVars, histVars>>

\* ------------------------------------------ HTTPShipper.start / stop (caller)
WorkerAlive == pc["w"] \notin {"none", "exited"}

\* mutant: start() without the test of _running
HTTPShipper_start_again ==
    /\ pc["c"] = "idle"
    /\ stopEvent' = FALSE
    /\ running' = TRUE
    /\ pc' = [pc EXCEPT !["w"] = "loop"]
    /\ batch' = <<>>
    /\ retryDelay' = retry_backoff_seconds
    /\ streak' = 0
    /\ UNCHANGED <<tailVars, bufVars, confVars, st_mode, lastNotificationCheck,
                   notifCycle, gateVars, fimVars, serverMode, status, setval,
                   setret, outcome, observed, obsRepeat, histVars>>

\* HTTPShipper.start as its caller sees it: returns at once when running; else
\* clears the stop event and starts the worker thread, whose retry_delay
\* starts at retry_backoff_seconds
HTTPShipper_start ==
    /\ pc["c"] = "idle"
    /\ IF running
       THEN UNCHANGED <<tailVars, progVars, serverMode, shipVars, histVars>>
       ELSE /\ ~WorkerAlive
            /\ stopEvent' = FALSE
            /\ running' = TRUE
            /\ pc' = [pc EXCEPT !["w"] = "loop"]
            /\ batch' = <<>>
            /\ retryDelay' = retry_backoff_seconds
            /\ streak' = 0
            /\ UNCHANGED <<tailVars, bufVars, confVars, st_mode,
                           lastNotificationCheck, notifCycle, gateVars, fimVars,
                           serverMode, status, setval, setret, outcome, observed,
                           obsRepeat, histVars>>

\* HTTPShipper.stop up to the join: returns at once when not running; else
\* sets the stop event and waits for the worker
HTTPShipper_stop ==
    /\ pc["c"] = "idle"
    /\ IF ~running
       THEN UNCHANGED <<tailVars, progVars, serverMode, shipVars, histVars>>
       ELSE /\ stopEvent' = TRUE
            /\ pc' = [pc EXCEPT !["c"] = "join"]
            /\ UNCHANGED <<tailVars, progVars, serverMode, status, running, setval,
                           setret, batch, retryDelay, outcome, observed,
                           obsRepeat, histVars>>

\* a start() that starts the worker
start ==
    /\ ~running
    /\ HTTPShipper_start
    /\ UNCHANGED supVars

\* a stop() of the running shipper
stop ==
    /\ running
    /\ HTTPShipper_stop
    /\ UNCHANGED supVars

\* self._thread.join(timeout=10.0) returns because the worker has ended;
\* then _running = False and status = DISCONNECTED
stop_joined ==
    /\ pc["c"] = "join"
    /\ ~WorkerAlive
    /\ running' = FALSE
    /\ SetterCall("c", DISCONNECTED, "idle")
    /\ UNCHANGED <<tailVars, bufVars, extVars, serverMode, status, stopEvent, batch,
                   retryDelay, outcome, observed, obsRepeat, histVars>>

\* the join times out while the worker awaits the POST (timeout 30 s)
stop_join_timeout ==
    /\ pc["c"] = "join"
    /\ pc["w"] = "post"
    /\ running' = FALSE
    /\ SetterCall("c", DISCONNECTED, "idle")
    /\ UNCHANGED <<tailVars, bufVars, extVars, serverMode, status, stopEvent, batch,
                   retryDelay, outcome, observed, obsRepeat, histVars>>

\* ------------------------------------------------------------ environment
\* the server, or the network, starts to behave in another way among modes
ServerChange(modes) ==
    /\ \E m \in modes \ {serverMode} : serverMode' = m
    /\ UNCHANGED <<tailVars, bufVars, extVars, shipVars, histVars>>

\* the wall clock moves to another of the readings, forward or (when it is
\* set) backward
ClockMove(readings) ==
    /\ \E t \in readings \ {wall} : wall' = t
    /\ UNCHANGED <<bufVars, apiKey, batch_size, watch_paths, fim_enabled, gateVars,
                   supVars, fimVars, serverMode, shipVars, histVars, tailVars,
                   moreVars>>

ClockStep == ClockMove(0..MaxClock)

\* the process is killed and a new one constructs EventBuffer and HTTPShipper
\* on the same database file
KillAndReopen ==
    /\ events' = init_db(TRUE, events)
    /\ status' = DISCONNECTED
    /\ running' = FALSE
    /\ stopEvent' = FALSE
    /\ pc' = [t \in Threads |-> IF t = "w" THEN "none" ELSE "idle"]
    /\ setval' = [t \in Threads |-> DISCONNECTED]
    /\ setret' = [t \in Threads |-> "idle"]
    /\ batch' = <<>>
    /\ retryDelay' = retry_backoff_seconds
    /\ outcome' = "none"
    /\ observed' = "none"
    /\ restarted' = TRUE
    /\ fetched' = NoFetch
    /\ positions' = <<>>
    /\ watching' = FALSE
    /\ pending' = <<>>
    /\ paused' = FALSE
    /\ agentPc' = <<"idle", 0>>
    /\ agentRunning' = FALSE
    /\ lockHolder' = lockHolder \ {"p1"}
    /\ lastCall' = <<>>
    /\ fimRunning' = FALSE
    /\ fimPending' = <<>>
    /\ verifyOut' = <<>>
    /\ lastNotificationCheck' = 0
    /\ notifCycle' = NoCycle
    /\ streak' = 0
    /\ UNCHANGED <<fsVars, emitted, preLen, lastRead, nextId, apiKey, batch_size,
                   watch_paths, fim_enabled, wall, st_mode, serverMode,
                   obsRepeat, received, dropped, lockFile, other, baselines,
                   fimCount, fimLast, lastSet>>

\* -------------------------------------------------------------- watcher.py
Whitespace == {" ", NL}

\* the index of the first line terminator of text, Len(text) when it has none
RECURSIVE LineEnd(_, _)
LineEnd(text, i) ==
    IF i >= Len(text) \/ text[i] = NL THEN i ELSE LineEnd(text, i + 1)

\* f.readlines() at offset at: every line with its terminator (the last one
\* may have none), together with the offset at which the line begins
RECURSIVE readlines(_, _)
readlines(text, at) ==
    IF at >= Len(text) THEN <<>>
    ELSE LET k == LineEnd(text, at + 1)
         IN <<[line |-> SubSeq(text, at + 1, k), offset |-> at]>>
            \o readlines(text, k)

\* line.strip() is empty
IsBlank(line) == \A i \in 1..Len(line) : line[i] \in Whitespace

\* line.rstrip("\n\r")
RECURSIVE rstrip(_)
rstrip(line) ==
    IF line # <<>> /\ line[Len(line)] = NL THEN rstrip(SubSeq(line, 1, Len(line) - 1))
    ELSE line

\* mutant: the truncation test is missing
seek_pos_keep(file_size, current_pos) == current_pos

\* if file_size < current_pos: current_pos = 0
seek_pos(file_size, current_pos) == IF file_size < current_pos THEN 0 ELSE current_pos

\* _file_positions.get(file_path, 0)
StoredPos(pos, f) == IF f \in DOMAIN pos THEN pos[f] ELSE 0

\* pos[f] = v
Put(pos, f, v) == [g \in (DOMAIN pos) \cup {f} |-> IF g = f THEN v ELSE pos[g]]

\* _read_new_lines: the lines kept and the new offset f.tell(); a seek past
\* the end reads nothing and leaves the offset where it is
read_new_lines(text, current_pos) ==
    LET from == seek_pos(Len(text), current_pos)
        lines == readlines(text, from)
        kept == SelectSeq(lines, LAMBDA l : ~IsBlank(l.line))
    IN [lines |-> [i \in 1..Len(kept) |->
                      [message |-> rstrip(kept[i].line), offset |-> kept[i].offset]],
        tell |-> IF from > Len(text) THEN from ELSE Len(text)]

\* mutant: a read that fails stores the end of the file as the offset
process_file_skip(f, pos) ==
    IF f \notin present
    THEN /\ positions' = pos
         /\ UNCHANGED <<emitted, lastRead>>
    ELSE IF st_mode[f] = Unreadable
    THEN /\ positions' = Put(pos, f, Len(content[f]))
         /\ lastRead' = [file_path |-> f, pos |-> StoredPos(pos, f),
                         size |-> Len(content[f])]
         /\ UNCHANGED emitted
    ELSE LET r == read_new_lines(content[f], StoredPos(pos, f)) IN
         /\ positions' = Put(pos, f, r.tell)
         /\ emitted' = emitted \o
               [i \in 1..Len(r.lines) |->
                   [file_path |-> f, message |-> r.lines[i].message,
                    offset |-> r.lines[i].offset, gen |-> gen[f]]]
         /\ lastRead' = [file_path |-> f, pos |-> StoredPos(pos, f),
                         size |-> Len(content[f])]

\* _process_file with the offset table pos: nothing for a path that is no
\* file; nothing but the error log when open() raises in _read_new_lines,
\* which then returns [] before it stores an offset; else one LogEvent per
\* line read, in order
process_file(f, pos) ==
    IF f \notin present
    THEN /\ positions' = pos
         /\ UNCHANGED <<emitted, lastRead>>
    ELSE IF st_mode[f] = Unreadable
    THEN /\ positions' = pos
         /\ lastRead' = [file_path |-> f, pos |-> StoredPos(pos, f),
                         size |-> Len(content[f])]
         /\ UNCHANGED emitted
    ELSE LET r == read_new_lines(content[f], StoredPos(pos, f)) IN
         /\ positions' = Put(pos, f, r.tell)
         /\ emitted' = emitted \o
               [i \in 1..Len(r.lines) |->
                   [file_path |-> f, message |-> r.lines[i].message,
                    offset |-> r.lines[i].offset, gen |-> gen[f]]]
         /\ lastRead' = [file_path |-> f, pos |-> StoredPos(pos, f),
                         size |-> Len(content[f])]

\* FileWatcher.start as its caller sees it: returns at once when running; else
\* the observer and new handlers, whose offset tables are empty
FileWatcher_start ==
    IF watching
    THEN UNCHANGED <<tailVars, progVars, serverMode, shipVars, histVars>>
    ELSE /\ watching' = TRUE
         /\ positions' = <<>>
         /\ preLen' = [f \in Paths |-> Len(content[f])]
         /\ gen' = [f \in Paths |-> 0]
         /\ UNCHANGED <<progVars, serverMode, shipVars, histVars, content,
                        present, pending, emitted, lastRead, writes, fimPending>>

\* FileWatcher.stop: returns at once when not running; else stops the
\* observer, whose queue is discarded, and clears the handlers
FileWatcher_stop ==
    IF ~watching
    THEN UNCHANGED <<tailVars, progVars, serverMode, shipVars, histVars>>
    ELSE /\ watching' = FALSE
         /\ pending' = <<>>
         /\ positions' = <<>>
         /\ UNCHANGED <<progVars, serverMode, shipVars, histVars, content,
                        present, emitted, preLen, gen, lastRead, writes,
                        fimPending>>

\* a start() that starts the observer
watcher_start ==
    /\ ~watching
    /\ FileWatcher_start
    /\ UNCHANGED supVars

\* the observer dispatches its queue in order, one event at a time
IsNext(queue, kind, f) == queue # <<>> /\ Head(queue) = <<kind, f>>

\* an event is queued unless the same event is still waiting in the queue
Enqueue(queue, kind, f) ==
    IF \E i \in 1..Len(queue) : queue[i] = <<kind, f>>
    THEN queue
    ELSE Append(queue, <<kind, f>>)

\* LogFileHandler.on_created
on_created(f) ==
    /\ IsNext(pending, "created", f)
    /\ pending' = Tail(pending)
    /\ process_file(f, Put(positions, f, 0))
    /\ UNCHANGED <<bufVars, extVars, serverMode, shipVars, histVars, fsVars,
                   watching, preLen, fimPending>>

\* LogFileHandler.on_modified
on_modified(f) ==
    /\ IsNext(pending, "modified", f)
    /\ pending' = Tail(pending)
    /\ process_file(f, positions)
    /\ UNCHANGED <<bufVars, extVars, serverMode, shipVars, histVars, fsVars,
                   watching, preLen, fimPending>>

\* pos.pop(f): the table without the entry of f
Pop(pos, f) == [g \in (DOMAIN pos) \ {f} |-> pos[g]]

\* LogFileHandler.on_moved: the offset of a tracked source goes to the
\* destination; nothing is read
on_moved(f, g) ==
    /\ IsNext(pending, "moved", <<f, g>>)
    /\ pending' = Tail(pending)
    /\ positions' = IF f \in DOMAIN positions
                    THEN Put(Pop(positions, f), g, positions[f])
                    ELSE positions
    /\ UNCHANGED <<bufVars, extVars, serverMode, shipVars, histVars, fsVars,
                   watching, emitted, preLen, lastRead, fimPending>>

\* LogFileHandler has no on_deleted: the inherited handler does nothing
on_deleted(f) ==
    /\ IsNext(pending, "deleted", f)
    /\ pending' = Tail(pending)
    /\ UNCHANGED <<bufVars, extVars, serverMode, shipVars, histVars, fsVars,
                   positions, watching, emitted, preLen, lastRead, fimPending>>


\* ------------------------------------------------- the file system (writers)
Notify(kind, f) ==
    /\ pending' = IF watching THEN Enqueue(pending, kind, f) ELSE pending
    /\ fimPending' = IF fimRunning THEN Enqueue(fimPending, kind, f) ELSE fimPending

\* a writer appends a piece of text to a file
fs_append(f, chunk) ==
    /\ f \in present
    /\ writes < MaxWrites
    /\ Len(content[f]) + Len(chunk) <= MaxLen
    /\ content' = [content EXCEPT ![f] = @ \o chunk]
    /\ writes' = writes + 1
    /\ Notify("modified", f)
    /\ UNCHANGED <<bufVars, extVars, serverMode, shipVars, histVars, present,
                   positions, watching, emitted, preLen, gen, lastRead>>

\* a writer truncates a file and writes a piece of text (rotation in place)
fs_rewrite(f, chunk) ==
    /\ f \in present
    /\ writes < MaxWrites
    /\ content' = [content EXCEPT ![f] = chunk]
    /\ gen' = [gen EXCEPT ![f] = @ + 1]
    /\ writes' = writes + 1
    /\ Notify("modified", f)
    /\ UNCHANGED <<bufVars, extVars, serverMode, shipVars, histVars, present,
                   positions, watching, emitted, preLen, lastRead>>

\* a writer creates a file with a piece of text
fs_create(f, chunk) ==
    /\ f \notin present
    /\ writes < MaxWrites
    /\ present' = present \cup {f}
    /\ content' = [content EXCEPT ![f] = chunk]
    /\ gen' = [gen EXCEPT ![f] = @ + 1]
    /\ writes' = writes + 1
    /\ Notify("created", f)
    /\ UNCHANGED <<bufVars, extVars, serverMode, shipVars, histVars, positions,
                   watching, emitted, preLen, lastRead>>

\* the permissions of a file change (chmod), which the observers report as a
\* modification
fs_chmod(f) ==
    /\ f \in present
    /\ writes < MaxWrites
    /\ st_mode' = [st_mode EXCEPT ![f] = IF @ = Readable THEN Unreadable ELSE Readable]
    /\ writes' = writes + 1
    /\ Notify("modified", f)
    /\ UNCHANGED <<bufVars, confVars, lastNotificationCheck, notifCycle, streak,
                   gateVars, supVars, fimVars, serverMode, shipVars, histVars,
                   content, present, positions, watching, emitted, preLen, gen,
                   lastRead>>

\* a file is renamed, over the file of the new name if there is one
fs_move(f, g) ==
    /\ f \in present
    /\ f # g
    /\ writes < MaxWrites
    /\ present' = (present \ {f}) \cup {g}
    /\ content' = [content EXCEPT ![g] = content[f], ![f] = <<>>]
    /\ st_mode' = [st_mode EXCEPT ![g] = st_mode[f], ![f] = Readable]
    /\ gen' = [gen EXCEPT ![f] = @ + 1, ![g] = @ + 1]
    /\ writes' = writes + 1
    /\ Notify("moved", <<f, g>>)
    /\ UNCHANGED <<bufVars, confVars, lastNotificationCheck, notifCycle, streak,
                   gateVars, supVars, fimVars, serverMode, shipVars, histVars,
                   positions, watching, emitted, preLen, lastRead>>

\* a file is removed
fs_delete(f) ==
    /\ f \in present
    /\ writes < MaxWrites
    /\ present' = present \ {f}
    /\ content' = [content EXCEPT ![f] = <<>>]
    /\ gen' = [gen EXCEPT ![f] = @ + 1]
    /\ st_mode' = [st_mode EXCEPT ![f] = Readable]
    /\ writes' = writes + 1
    /\ Notify("deleted", f)
    /\ UNCHANGED <<bufVars, confVars, lastNotificationCheck, notifCycle, streak,
                   gateVars, supVars, fimVars, serverMode, shipVars, histVars,
                   positions, watching, emitted, preLen, lastRead>>

\* the files that exist when the agent starts
InitContents == {<<>>, <<"a", NL>>, <<"b", NL, "a", NL>>}

InitTail ==
    /\ apiKey = TRUE
    /\ batch_size = 1
    /\ watch_paths = TRUE
    /\ fim_enabled = TRUE
    /\ wall = 0
    /\ MoreInit
    /\ serverMode = "ok"
    /\ ShipperInit
    /\ present \in SUBSET Paths
    /\ content \in [Paths -> InitContents]
    /\ \A f \in Paths \ present : content[f] = <<>>
    /\ WatcherInit
    /\ AgentInit
    /\ FimInit

NextTail ==
    \/ watcher_start
    \/ \E f \in Paths : on_created(f)
    \/ \E f \in Paths : on_modified(f)
    \/ \E f \in Paths, chunk \in Chunks : fs_append(f, chunk)
    \/ \E f \in Paths, chunk \in Chunks : fs_rewrite(f, chunk)
    \/ \E f \in Paths, chunk \in Chunks : fs_create(f, chunk)

SpecTail == InitTail /\ [][NextTail]_vars

\* the whole lines that writers of the watched and monitored files write
FimChunks == {<<"a", NL>>, <<"b", NL>>}

\* the tailer with all the events an observer reports, and writers that
\* append, create, remove, rename and change the permissions of two files
NextTailAll ==
    \/ watcher_start
    \/ \E f \in Paths : on_created(f)
    \/ \E f \in Paths : on_modified(f)
    \/ \E f \in Paths : on_deleted(f)
    \/ \E f, g \in Paths : on_moved(f, g)
    \/ \E f \in Paths, chunk \in FimChunks : fs_append(f, chunk)
    \/ \E f \in Paths, chunk \in FimChunks : fs_create(f, chunk)
    \/ \E f \in Paths : fs_delete(f)
    \/ \E f \in Paths : fs_chmod(f)
    \/ \E f, g \in Paths : fs_move(f, g)

SpecTailAll == InitTail /\ [][NextTailAll]_vars

\* ------------------------------------------------- fim.py: BaselineDatabase
\* compute_file_hash: "sha256:" and the digest of the bytes, None (here the
\* empty tuple) when the file cannot be opened
\* f.read(n) at the offset: the next n bytes, or those that are left
f_read(bytes, offset, n) == SubSeq(bytes, offset + 1, Min(offset + n, Len(bytes)))

\* the size of a read (65536 in the code)
ReadSize == 2

\* mutant: the bytes of the first read are the only ones hashed
hash_chunks_first(hasher, bytes, offset) == hasher \o f_read(bytes, offset, ReadSize)

\* for chunk in iter(lambda: f.read(65536), b""): hasher.update(chunk)
RECURSIVE hash_chunks(_, _, _)
hash_chunks(hasher, bytes, offset) ==
    LET chunk == f_read(bytes, offset, ReadSize) IN
    IF chunk = <<>> THEN hasher
    ELSE hash_chunks(hasher \o chunk, bytes, offset + Len(chunk))

\* hasher.hexdigest(): the digest of the bytes the hasher was fed, one digest
\* per byte string (SHA-256 without collisions)
hexdigest(hasher) == hasher

\* open(file_path, "rb") succeeds
CanOpen(f) == f \in present /\ st_mode[f] = Readable

compute_file_hash(f) ==
    IF CanOpen(f)
    THEN <<"sha256">> \o hexdigest(hash_chunks(<<>>, content[f], 0))
    ELSE <<>>

\* the owner of the monitored files
FileUid == 1000

\* str(uid): the decimal digits of the number
str(uid) == IF uid = FileUid THEN "1000" ELSE "0"

\* d.get(key, default) on a dict written as a sequence of pairs
dict_get(d, key, default) ==
    IF \E i \in 1..Len(d) : d[i][1] = key
    THEN d[CHOOSE i \in 1..Len(d) : d[i][1] = key][2]
    ELSE default

\* str(metadata.get("uid", "")): the digits of the uid, "" when there is none
file_owner_of(metadata) ==
    IF \E i \in 1..Len(metadata) : metadata[i][1] = "uid"
    THEN str(dict_get(metadata, "uid", ""))
    ELSE ""

\* get_file_metadata: the stat of the file (its size stands for the stat
\* fields), the empty dict when stat fails
get_file_metadata(f) ==
    IF f \in present
    THEN <<<<"size", Len(content[f])>>, <<"mode", st_mode[f]>>, <<"uid", FileUid>>>>
    ELSE <<>>

\* json.dumps / json.loads of a metadata dict
json_dumps(m) == <<"json", m>>
json_loads(t) == t[2]

HasRow(rows, f) == \E r \in rows : r.file_path = f
RowOf(rows, f) == CHOOSE r \in rows : r.file_path = f

\* SELECT hash, metadata FROM baselines WHERE file_path = ?; None is <<>>
get_baseline(rows, f) ==
    IF HasRow(rows, f)
    THEN <<RowOf(rows, f).hash, json_loads(RowOf(rows, f).metadata)>>
    ELSE <<>>

\* mutant: a plain INSERT on a table without the primary key
set_baseline_insert(rows, f, file_hash, metadata, now) ==
    rows \cup {[file_path |-> f, hash |-> file_hash, metadata |-> json_dumps(metadata),
                created_at |-> now, updated_at |-> now]}

\* INSERT ... ON CONFLICT(file_path) DO UPDATE SET hash, metadata, updated_at
set_baseline(rows, f, file_hash, metadata, now) ==
    IF HasRow(rows, f)
    THEN (rows \ {RowOf(rows, f)}) \cup
            {[RowOf(rows, f) EXCEPT !.hash = file_hash,
                                    !.metadata = json_dumps(metadata),
                                    !.updated_at = now]}
    ELSE rows \cup {[file_path |-> f, hash |-> file_hash,
                     metadata |-> json_dumps(metadata),
                     created_at |-> now, updated_at |-> now]}

\* DELETE FROM baselines WHERE file_path = ?
remove_baseline(rows, f) == {r \in rows : r.file_path # f}

\* SELECT file_path, hash, metadata FROM baselines: the rows in an order the
\* query does not fix
get_all_baselines(rows) ==
    {o \in [1..Cardinality(rows) -> rows] :
        \A i, j \in 1..Cardinality(rows) : i # j => o[i] # o[j]}

\* what the store answers for each path, with the time of the last write
StoreView(rows) ==
    [f \in Paths |-> IF HasRow(rows, f)
                     THEN get_baseline(rows, f) \o <<RowOf(rows, f).updated_at>>
                     ELSE <<>>]

\* the hashes and metadata dicts a caller of the store passes
Hashes == {<<"sha256", "a", NL>>, <<"sha256", "b", NL>>}
Metas == {<<>>, <<<<"size", 2>>>>}

\* a call of BaselineDatabase.set_baseline
db_set(f, file_hash, metadata) ==
    /\ baselines' = set_baseline(baselines, f, file_hash, metadata, wall)
    /\ lastSet' = [lastSet EXCEPT ![f] = <<file_hash, metadata, wall>>]
    /\ UNCHANGED <<bufVars, cfgVars, gateVars, supVars, serverMode, shipVars,
                   histVars, tailVars, fimRunning, fimCount, verifyOut, fimLast>>

\* a call of BaselineDatabase.remove_baseline
db_remove(f) ==
    /\ baselines' = remove_baseline(baselines, f)
    /\ lastSet' = [lastSet EXCEPT ![f] = <<>>]
    /\ UNCHANGED <<bufVars, cfgVars, gateVars, supVars, serverMode, shipVars,
                   histVars, tailVars, fimRunning, fimCount, verifyOut, fimLast>>

\* ------------------------------------------------------ agent.py: pause gate
\* mutant: the callbacks do not test the flag
PauseGate_open(kind, recs, base, now) ==
    /\ events' = events \cup
             {[id |-> nextId + i - 1, event_type |-> kind,
               data |-> [file_path |-> recs[i].file_path, line |-> base + i],
               created_at |-> now, attempts |-> 0] : i \in 1..Len(recs)}
    /\ nextId' = nextId + Len(recs)
    /\ UNCHANGED dropped

\* Agent._on_log_event / _on_fim_event for the records recs, which are the
\* on_event calls number base + 1, base + 2, ... of their kind: while paused
\* each call returns at once; else each record is enqueued (one INSERT each)
\* with the wall clock reading now
PauseGate(kind, recs, base, now) ==
    IF paused
    THEN /\ dropped' = dropped \cup {<<kind, base + i>> : i \in 1..Len(recs)}
         /\ UNCHANGED bufVars
    ELSE /\ events' = events \cup
                  {[id |-> nextId + i - 1, event_type |-> kind,
                    data |-> [file_path |-> recs[i].file_path, line |-> base + i],
                    created_at |-> now, attempts |-> 0] : i \in 1..Len(recs)}
         /\ nextId' = nextId + Len(recs)
         /\ UNCHANGED dropped

\* Agent._on_pause
on_pause ==
    /\ ~paused
    /\ paused' = TRUE
    /\ UNCHANGED <<bufVars, cfgVars, dropped, supVars, fimVars, serverMode,
                   shipVars, histVars, tailVars>>

\* Agent._on_resume
on_resume ==
    /\ paused
    /\ paused' = FALSE
    /\ UNCHANGED <<bufVars, cfgVars, dropped, supVars, fimVars, serverMode,
                   shipVars, histVars, tailVars>>

\* LogFileHandler.on_created / on_modified in the agent, where on_event is
\* Agent._on_log_event: the drain, then the gate for each record it emitted
log_handler(kind, f) ==
    /\ IsNext(pending, kind, f)
    /\ pending' = Tail(pending)
    /\ process_file(f, IF kind = "created" THEN Put(positions, f, 0) ELSE positions)
    /\ PauseGate("log", SubSeq(emitted', Len(emitted) + 1, Len(emitted')),
                 Len(emitted), wall)
    /\ UNCHANGED <<cfgVars, paused, supVars, fimVars, serverMode, shipVars,
                   histVars, fsVars, watching, preLen, fimPending>>

log_on_created(f) == log_handler("created", f)

log_on_modified(f) == log_handler("modified", f)

\* ------------------------------------------------------ fim.py: FIMHandler
\* FIMHandler._create_event: the metadata of a live event
LiveMetadata(f) == <<<<"pattern", "*">>>> \o get_file_metadata(f)

FIMEvent(event_type, f, previous_hash, current_hash, file_owner, file_permissions, metadata) ==
    [event_type |-> event_type, file_path |-> f, previous_hash |-> previous_hash,
     current_hash |-> current_hash, file_owner |-> file_owner,
     file_permissions |-> file_permissions, metadata |-> metadata]

\* FIMHandler._create_event: owner and permissions from the stat of the file
\* if os.path.exists, else from an empty dict
create_event(event_type, f, previous_hash, current_hash) ==
    LET metadata == IF f \in present THEN get_file_metadata(f) ELSE <<>>
    IN FIMEvent(event_type, f, previous_hash, current_hash,
                file_owner_of(metadata), dict_get(metadata, "mode", ""),
                LiveMetadata(f))

\* a handler call with the wall clock reading now: takes the event from the observer's
\* queue, leaves the store as rows, hands evs to on_event
FimHandled(kind, f, rows, evs, did, now) ==
    /\ IsNext(fimPending, kind, f)
    /\ fimPending' = Tail(fimPending)
    /\ baselines' = rows
    /\ lastSet' = StoreView(rows)
    /\ fimCount' = fimCount + Len(evs)
    /\ fimLast' = [kind |-> kind, file_path |-> f, did |-> did, events |-> evs]
    /\ PauseGate("fim", evs, fimCount, now)
    /\ UNCHANGED <<cfgVars, paused, supVars, fimRunning, verifyOut, serverMode,
                   shipVars, histVars, content, present, positions, watching,
                   pending, emitted, preLen, gen, lastRead, writes>>

\* FIMHandler.on_created
fim_on_created(f) ==
    LET now == wall IN
        LET current_hash == compute_file_hash(f) IN
        IF current_hash # <<>>
        THEN FimHandled("created", f,
                 set_baseline(baselines, f, current_hash, get_file_metadata(f), now),
                 <<create_event("created", f, <<>>, current_hash)>>,
                 "emitted", now)
        ELSE FimHandled("created", f, baselines, <<>>, "nohash", now)

\* mutant: the comparison with the baseline hash is missing
quiet_write_never(previous_hash, current_hash) == FALSE

\* if previous_hash and previous_hash == current_hash: return
quiet_write(previous_hash, current_hash) ==
    previous_hash # <<>> /\ previous_hash = current_hash

\* mutant: the hash is not tested before it is stored
fim_on_modified_untested(f) ==
    LET now == wall IN
        LET baseline == get_baseline(baselines, f)
            previous_hash == IF baseline # <<>> THEN baseline[1] ELSE <<>>
            current_hash == compute_file_hash(f)
        IN IF quiet_write(previous_hash, current_hash)
           THEN FimHandled("modified", f, baselines, <<>>, "quiet", now)
           ELSE FimHandled("modified", f,
                    set_baseline(baselines, f, current_hash, get_file_metadata(f), now),
                    <<create_event("modified", f, previous_hash, current_hash)>>,
                    "emitted", now)

\* FIMHandler.on_modified
fim_on_modified(f) ==
    LET now == wall IN
        LET baseline == get_baseline(baselines, f)
            previous_hash == IF baseline # <<>> THEN baseline[1] ELSE <<>>
            current_hash == compute_file_hash(f)
        IN IF current_hash = <<>>
           THEN FimHandled("modified", f, baselines, <<>>, "nohash", now)
           ELSE IF quiet_write(previous_hash, current_hash)
           THEN FimHandled("modified", f, baselines, <<>>, "quiet", now)
           ELSE FimHandled("modified", f,
                    set_baseline(baselines, f, current_hash, get_file_metadata(f), now),
                    <<create_event("modified", f, previous_hash, current_hash)>>,
                    "emitted", now)

\* mutant: the entry stays in the store
fim_on_deleted_keep(f) ==
    LET now == wall IN
        LET baseline == get_baseline(baselines, f)
            previous_hash == IF baseline # <<>> THEN baseline[1] ELSE <<>>
        IN FimHandled("deleted", f, baselines,
                      <<create_event("deleted", f, previous_hash, <<>>)>>,
                      "emitted", now)

\* FIMHandler.on_deleted
fim_on_deleted(f) ==
    LET now == wall IN
        LET baseline == get_baseline(baselines, f)
            previous_hash == IF baseline # <<>> THEN baseline[1] ELSE <<>>
        IN FimHandled("deleted", f, remove_baseline(baselines, f),
                      <<create_event("deleted", f, previous_hash, <<>>)>>,
                      "emitted", now)

\* FIMHandler.on_moved: the source as a delete if it has a baseline, then the
\* destination as a create if it can be hashed
fim_on_moved(f, g) ==
    LET now == wall IN
        LET baseline == get_baseline(baselines, f)
            removed == IF baseline # <<>> THEN remove_baseline(baselines, f)
                       ELSE baselines
            deleted == IF baseline # <<>>
                       THEN <<create_event("deleted", f, baseline[1], <<>>)>>
                       ELSE <<>>
            current_hash == compute_file_hash(g)
        IN IF current_hash # <<>>
           THEN FimHandled("moved", <<f, g>>,
                    set_baseline(removed, g, current_hash, get_file_metadata(g), now),
                    deleted \o <<create_event("created", g, <<>>, current_hash)>>,
                    "emitted", now)
           ELSE FimHandled("moved", <<f, g>>, removed, deleted, "nohash", now)

\* ------------------------------------------- fim.py: FileIntegrityMonitor
\* build_baseline: every matching file that can be hashed gets an entry
RECURSIVE build_baseline(_, _, _)
build_baseline(rows, files, now) ==
    IF files = {} THEN rows
    ELSE LET f == CHOOSE g \in files : TRUE
             file_hash == compute_file_hash(f)
         IN build_baseline(
                IF file_hash # <<>>
                THEN set_baseline(rows, f, file_hash, get_file_metadata(f), now)
                ELSE rows,
                files \ {f}, now)

\* FileIntegrityMonitor.start as its caller sees it: returns at once when
\* running or when FIM is disabled; else builds the baseline if the store is
\* empty, then starts the observer
FileIntegrityMonitor_start ==
    IF fimRunning \/ ~fim_enabled
    THEN UNCHANGED <<tailVars, progVars, serverMode, shipVars, histVars>>
    ELSE /\ baselines' = IF get_all_baselines(baselines) = {<<>>}
                         THEN build_baseline(baselines, present, wall)
                         ELSE baselines
         /\ lastSet' = StoreView(baselines')
         /\ fimRunning' = TRUE
         /\ UNCHANGED <<bufVars, cfgVars, gateVars, fimCount, verifyOut,
                        fimLast, serverMode, shipVars, histVars, tailVars>>

\* FileIntegrityMonitor.stop: returns at once when not running; else stops
\* the observer, whose queue is discarded, and clears the handlers
FileIntegrityMonitor_stop ==
    IF ~fimRunning
    THEN UNCHANGED <<tailVars, progVars, serverMode, shipVars, histVars>>
    ELSE /\ fimRunning' = FALSE
         /\ fimPending' = <<>>
         /\ UNCHANGED <<bufVars, cfgVars, gateVars, baselines, fimCount,
                        verifyOut, fimLast, lastSet, serverMode, shipVars,
                        histVars, content, present, positions, watching,
                        pending, emitted, preLen, gen, lastRead, writes>>

\* a start() that starts the observer
fim_start ==
    /\ ~fimRunning
    /\ fim_enabled
    /\ FileIntegrityMonitor_start
    /\ UNCHANGED supVars

\* a call of FileIntegrityMonitor.build_baseline
fim_build_baseline ==
    /\ baselines' = build_baseline(baselines, present, wall)
    /\ lastSet' = StoreView(baselines')
    /\ UNCHANGED <<bufVars, cfgVars, gateVars, supVars, fimRunning, fimCount,
                   verifyOut, fimLast, serverMode, shipVars, histVars, tailVars>>

\* mutant: the entry of a file that is gone stays in the store
verify_entry_keep(rows, r, now) ==
    LET f == r.file_path
        baseline_metadata == json_loads(r.metadata)
        current_hash == compute_file_hash(f)
    IN IF f \notin present
       THEN [rows |-> rows,
             events |-> <<FIMEvent("deleted", f, r.hash, <<>>,
                                   file_owner_of(baseline_metadata),
                                   dict_get(baseline_metadata, "mode", ""),
                                   <<<<"verification", TRUE>>>>)>>]
       ELSE IF current_hash # <<>> /\ current_hash # r.hash
       THEN [rows |-> set_baseline(rows, f, current_hash, get_file_metadata(f), now),
             events |-> <<FIMEvent("modified", f, r.hash, current_hash,
                                   file_owner_of(get_file_metadata(f)),
                                   dict_get(get_file_metadata(f), "mode", ""),
                                   <<<<"verification", TRUE>>>> \o get_file_metadata(f))>>]
       ELSE [rows |-> rows, events |-> <<>>]

\* verify_baseline, the body of the loop for the fetched row r
verify_entry(rows, r, now) ==
    LET f == r.file_path
        baseline_metadata == json_loads(r.metadata)
        current_hash == compute_file_hash(f)
    IN IF f \notin present
       THEN [rows |-> remove_baseline(rows, f),
             events |-> <<FIMEvent("deleted", f, r.hash, <<>>,
                                   file_owner_of(baseline_metadata),
                                   dict_get(baseline_metadata, "mode", ""),
                                   <<<<"verification", TRUE>>>>)>>]
       ELSE IF current_hash # <<>> /\ current_hash # r.hash
       THEN [rows |-> set_baseline(rows, f, current_hash, get_file_metadata(f), now),
             events |-> <<FIMEvent("modified", f, r.hash, current_hash,
                                   file_owner_of(get_file_metadata(f)),
                                   dict_get(get_file_metadata(f), "mode", ""),
                                   <<<<"verification", TRUE>>>> \o get_file_metadata(f))>>]
       ELSE [rows |-> rows, events |-> <<>>]

\* the loop over the fetched rows o, from the i-th on
RECURSIVE verify_loop(_, _, _, _)
verify_loop(rows, o, i, now) ==
    IF i > Len(o) THEN [rows |-> rows, events |-> <<>>]
    ELSE LET one == verify_entry(rows, o[i], now)
             rest == verify_loop(one.rows, o, i + 1, now)
         IN [rows |-> rest.rows, events |-> one.events \o rest.events]

\* FileIntegrityMonitor.verify_baseline; the events are returned to the caller
verify_baseline ==
    /\ \E o \in get_all_baselines(baselines) :
          LET v == verify_loop(baselines, o, 1, wall) IN
          /\ baselines' = v.rows
          /\ verifyOut' = v.events
    /\ lastSet' = StoreView(baselines')
    /\ UNCHANGED <<bufVars, cfgVars, gateVars, supVars, fimRunning, fimCount,
                   fimLast, serverMode, shipVars, histVars, tailVars>>

\* verify_baseline on a thread of its own, first step: the query
\* get_all_baselines() returns the rows, which the loop then goes through
verify_fetch ==
    /\ ~fetched.active
    /\ \E o \in get_all_baselines(baselines) :
          fetched' = [active |-> TRUE, rows |-> o]
    /\ UNCHANGED <<bufVars, cfgVars, gateVars, supVars, fimVars, serverMode,
                   shipVars, received, restarted, tailVars>>

\* verify_baseline, the loop over the fetched rows and the return
verify_rest ==
    /\ fetched.active
    /\ LET v == verify_loop(baselines, fetched.rows, 1, wall) IN
          /\ baselines' = v.rows
          /\ verifyOut' = v.events
    /\ lastSet' = StoreView(baselines')
    /\ fetched' = NoFetch
    /\ UNCHANGED <<bufVars, cfgVars, gateVars, supVars, fimRunning, fimCount,
                   fimLast, serverMode, shipVars, received, restarted, tailVars>>

\* ---------------------------------------------------------- specifications
\* the worker thread alone: nothing calls stop()
Next ==
    \/ \E f \in Files : add_log_event(f)
    \/ start
    \/ async_loop_send
    \/ async_loop_idle
    \/ send_batch_ok
    \/ send_batch_fail
    \/ async_loop_failed
    \/ check_connection
    \/ status_check("w")
    \/ status_assign("w")
    \/ status_notify("w")
    \/ ServerChange(ServerModes)
    \/ KillAndReopen

Spec == Init /\ [][Next]_vars

\* the worker thread and a thread that calls start() and stop()
NextStop ==
    \/ add_log_event("a")
    \/ start
    \/ stop
    \/ stop_joined
    \/ stop_join_timeout
    \/ async_loop_exit
    \/ async_loop_send
    \/ async_loop_idle
    \/ send_batch_ok
    \/ send_batch_fail
    \/ async_loop_failed
    \/ check_connection
    \/ \E t \in Threads : status_check(t)
    \/ \E t \in Threads : status_assign(t)
    \/ \E t \in Threads : status_notify(t)
    \/ ServerChange(ServerModes)

SpecStop == Init /\ [][NextStop]_vars

\* the worker thread under fair scheduling; every request ends (timeouts)
WorkerLive ==
    \/ async_loop_send
    \/ async_loop_idle
    \/ send_batch_ok
    \/ send_batch_fail
    \/ async_loop_failed
    \/ check_connection
    \/ status_check("w")
    \/ status_assign("w")
    \/ status_notify("w")

NextLive ==
    \/ add_log_event("a")
    \/ start
    \/ WorkerLive
    \/ ServerChange(ServerModes)

SpecLive == Init /\ [][NextLive]_vars /\ WF_vars(start) /\ WF_vars(WorkerLive)

\* the worker thread with an API key and a server that never answers 401
InitNoAuth == Init /\ apiKey /\ serverMode # "auth"

NextNoAuth ==
    \/ \E f \in Files : add_log_event(f)
    \/ add_fim_event
    \/ start
    \/ WorkerLive
    \/ ServerChange(ServerModes \ {"auth"})

SpecNoAuth == InitNoAuth /\ [][NextNoAuth]_vars


\* the baseline store alone, called with arbitrary arguments
InitStore == Init /\ apiKey /\ batch_size = 1 /\ serverMode = "ok"

NextStore ==
    \/ ClockStep
    \/ \E f \in Paths, h \in Hashes, m \in Metas : db_set(f, h, m)
    \/ \E f \in Paths : db_remove(f)

SpecStore == InitStore /\ [][NextStore]_vars



InitFim ==
    /\ apiKey = TRUE
    /\ batch_size = 1
    /\ watch_paths = TRUE
    /\ fim_enabled = TRUE
    /\ wall = 0
    /\ MoreInit
    /\ serverMode = "ok"
    /\ ShipperInit
    /\ present \in SUBSET Paths
    /\ content = [f \in Paths |-> IF f \in present THEN <<"a", NL>> ELSE <<>>]
    /\ WatcherInit
    /\ AgentInit
    /\ FimInit

NextFim ==
    \/ ClockStep
    \/ fim_start
    \/ \E f \in Paths : fim_on_created(f)
    \/ \E f \in Paths : fim_on_modified(f)
    \/ \E f \in Paths : fim_on_deleted(f)
    \/ \E f \in Paths, chunk \in FimChunks : fs_rewrite(f, chunk)
    \/ \E f \in Paths, chunk \in FimChunks : fs_create(f, chunk)
    \/ \E f \in Paths : fs_delete(f)

SpecFim == InitFim /\ [][NextFim]_vars

\* the monitor with its four handlers, the baseline built and verified by
\* direct calls, and writers that also rename files and change permissions
InitFimAll == InitFim /\ present = {"p"}

NextFimAll ==
    \/ fim_start
    \/ \E f \in Paths : fim_on_created(f)
    \/ \E f \in Paths : fim_on_modified(f)
    \/ \E f \in Paths : fim_on_deleted(f)
    \/ \E f, g \in Paths : fim_on_moved(f, g)
    \/ fim_build_baseline
    \/ verify_baseline
    \/ \E f \in Paths, chunk \in FimChunks : fs_rewrite(f, chunk)
    \/ \E f \in Paths, chunk \in FimChunks : fs_create(f, chunk)
    \/ \E f \in Paths : fs_delete(f)
    \/ \E f \in Paths : fs_chmod(f)
    \/ \E f, g \in Paths : fs_move(f, g)

SpecFimAll == InitFimAll /\ [][NextFimAll]_vars

\* the monitor's handler on the observer thread and verify_baseline on
\* another thread, while the two monitored files are rewritten
InitRace == InitFim /\ present = Paths

NextRace ==
    \/ fim_start
    \/ \E f \in Paths : fim_on_modified(f)
    \/ verify_fetch
    \/ verify_rest
    \/ \E f \in Paths, chunk \in FimChunks : fs_rewrite(f, chunk)

SpecRace == InitRace /\ [][NextRace]_vars

\* compute_file_hash applied to files of every content of up to MaxBytes
\* bytes, readable or not, there or not
MaxBytes == 3

Bytes == {"a", "b"}

HashContents == UNION {[1..n -> Bytes] : n \in 0..MaxBytes}

InitHash ==
    /\ apiKey = TRUE
    /\ batch_size = 1
    /\ watch_paths = TRUE
    /\ fim_enabled = TRUE
    /\ wall = 0
    /\ lastNotificationCheck = 0
    /\ notifCycle = NoCycle
    /\ streak = 0
    /\ st_mode \in [Paths -> {Readable, Unreadable}]
    /\ serverMode = "ok"
    /\ ShipperInit
    /\ present \in SUBSET Paths
    /\ content \in [Paths -> HashContents]
    /\ \A f \in Paths \ present : content[f] = <<>> /\ st_mode[f] = Readable
    /\ WatcherInit
    /\ AgentInit
    /\ FimInit

NextHash ==
    \/ fim_build_baseline
    \/ \E f \in Paths : fs_chmod(f)

SpecHash == InitHash /\ [][NextHash]_vars

\* the baseline built and verified by direct calls, as the supervisor or a
\* schedule may call them, while the monitored files change
NextVerify ==
    \/ ClockStep
    \/ fim_build_baseline
    \/ verify_baseline
    \/ \E f \in Paths, chunk \in FimChunks : fs_rewrite(f, chunk)
    \/ \E f \in Paths, chunk \in FimChunks : fs_create(f, chunk)
    \/ \E f \in Paths : fs_delete(f)

SpecVerify == InitFim /\ [][NextVerify]_vars


\* the tailer and the FIM of an agent with the pause switch, and a writer that
\* creates, appends a line to and removes the one file that both watch
InitPause ==
    /\ InitFim
    /\ present = {"p"}

NextPause ==
    \/ watcher_start
    \/ fim_start
    \/ on_pause
    \/ on_resume
    \/ log_on_created("p")
    \/ log_on_modified("p")
    \/ on_deleted("p")
    \/ fim_on_created("p")
    \/ fim_on_modified("p")
    \/ fim_on_deleted("p")
    \/ fs_append("p", <<"a", NL>>)
    \/ fs_create("p", <<"a", NL>>)
    \/ fs_delete("p")

SpecPause == InitPause /\ [][NextPause]_vars

\* the worker against a server that is up or unreachable: with the API key
\* set every failed send is a transport error
InitBackoff == Init /\ apiKey /\ serverMode \in {"ok", "down"}

NextBackoff ==
    \/ \E f \in Files : add_log_event(f)
    \/ start
    \/ async_loop_send
    \/ async_loop_idle
    \/ send_batch_ok
    \/ send_batch_fail
    \/ async_loop_failed
    \/ check_connection
    \/ status_check("w")
    \/ status_assign("w")
    \/ status_notify("w")
    \/ ServerChange({"ok", "down"})

SpecBackoff == InitBackoff /\ [][NextBackoff]_vars

\* the worker with the notification poll; the clock reads seconds since the
\* epoch, here a few readings less and more than 30 s apart
NotifClock == {1, 16, 31, 46, 61}

InitNotify ==
    /\ apiKey \in BOOLEAN
    /\ batch_size = 1
    /\ watch_paths = TRUE
    /\ fim_enabled = TRUE
    /\ wall = 1
    /\ MoreInit
    /\ serverMode \in ServerModes
    /\ ShipperInit
    /\ content = [f \in Paths |-> <<>>]
    /\ present = {}
    /\ WatcherInit
    /\ AgentInit
    /\ FimInit

NextNotify ==
    \/ start
    \/ async_loop_idle
    \/ check_connection
    \/ status_check("w")
    \/ status_assign("w")
    \/ status_notify("w")
    \/ check_notifications
    \/ ClockMove(NotifClock)
    \/ ServerChange(ServerModes)

SpecNotify == InitNotify /\ [][NextNotify]_vars

\* the worker with sends, probes and the notification poll, with an API key
InitProbe == InitNotify /\ apiKey

NextProbe ==
    \/ add_log_event("a")
    \/ start
    \/ WorkerLive
    \/ check_notifications
    \/ ServerChange(ServerModes)

SpecProbe == InitProbe /\ [][NextProbe]_vars

\* ------------------------------------------------------ agent.py: supervisor
\* this process and a second agent process on the same data directory
Procs == {"p1", "p2"}

\* the calls remembered in lastCall
MaxCalls == 2

\* the call op went as how: "ran", "returned" (at its first test) or "raised"
Called(op, how) ==
    LET s == Append(lastCall, [op |-> op, how |-> how])
    IN lastCall' = IF Len(s) > MaxCalls THEN Tail(s) ELSE s

\* a call that touches no component
Skip == UNCHANGED <<tailVars, progVars, serverMode, shipVars, histVars>>

\* fcntl.flock(fd, LOCK_EX | LOCK_NB) / msvcrt.locking(fd, LK_NBLCK, 1) by
\* process p succeeds unless another process holds the lock
flock(holders, p) == holders \subseteq {p}

\* SingleInstanceLock.acquire by process p: open(lock_file, "w") creates or
\* truncates the file before the lock is tried; with the lock the PID is
\* written; without it the handle is closed and the file stays as open() left
\* it: empty, or as it was where the platform refuses to open a locked file
acquire(p) ==
    IF flock(lockHolder, p)
    THEN /\ lockHolder' = lockHolder \cup {p}
         /\ lockFile' = p
    ELSE /\ lockHolder' = lockHolder
         /\ lockFile' \in {"empty", lockFile}

\* SingleInstanceLock.release by process p: unlock and close; the file stays
release(p) ==
    /\ lockHolder' = lockHolder \ {p}
    /\ lockFile' = lockFile

\* Agent.start of the second process: RuntimeError unless it gets the lock
other_start ==
    /\ other # "up"
    /\ acquire("p2")
    /\ other' = IF flock(lockHolder, "p2") THEN "up" ELSE "raised"
    /\ Skip
    /\ UNCHANGED <<agentPc, agentRunning, lastCall>>

\* Agent.stop of the second process
other_stop ==
    /\ other = "up"
    /\ release("p2")
    /\ other' = "down"
    /\ Skip
    /\ UNCHANGED <<agentPc, agentRunning, lastCall>>

\* the order of the component starts in Agent.start
StartOrder == <<"shipper", "watcher", "fim">>

\* mutant: the shipper is stopped first
StopOrder_shipper_first == <<"shipper", "watcher", "fim">>

\* the order of the component stops in Agent.stop
StopOrder == <<"fim", "watcher", "shipper">>

\* one of the component starts of Agent.start, under its condition
ComponentStart(c) ==
    CASE c = "shipper" -> HTTPShipper_start
      [] c = "watcher" -> IF watch_paths THEN FileWatcher_start ELSE Skip
      [] c = "fim" -> IF fim_enabled THEN FileIntegrityMonitor_start ELSE Skip

\* one of the component stops of Agent.stop
ComponentStop(c) ==
    CASE c = "shipper" -> HTTPShipper_stop
      [] c = "watcher" -> FileWatcher_stop
      [] c = "fim" -> FileIntegrityMonitor_stop

\* mutant: the result of acquire() is not looked at
agent_start_any ==
    /\ agentPc = <<"idle", 0>>
    /\ pc["c"] = "idle"
    /\ Skip
    /\ IF agentRunning
       THEN /\ Called("Agent.start", "returned")
            /\ UNCHANGED <<agentPc, agentRunning, lockHolder, lockFile, other>>
       ELSE /\ acquire("p1")
            /\ agentPc' = <<"start", 1>>
            /\ UNCHANGED <<agentRunning, other, lastCall>>

\* Agent.start up to the component starts: returns at once when running;
\* raises RuntimeError when the lock is not acquired
agent_start ==
    /\ agentPc = <<"idle", 0>>
    /\ pc["c"] = "idle"
    /\ Skip
    /\ IF agentRunning
       THEN /\ Called("Agent.start", "returned")
            /\ UNCHANGED <<agentPc, agentRunning, lockHolder, lockFile, other>>
       ELSE /\ acquire("p1")
            /\ IF flock(lockHolder, "p1")
               THEN /\ agentPc' = <<"start", 1>>
                    /\ UNCHANGED lastCall
               ELSE /\ agentPc' = <<"idle", 0>>
                    /\ Called("Agent.start", "raised")
            /\ UNCHANGED <<agentRunning, other>>

\* Agent.start: the next component start; after the last one _running = True
agent_start_step ==
    \E i \in 1..Len(StartOrder) :
        /\ agentPc = <<"start", i>>
        /\ pc["c"] = "idle"
        /\ ComponentStart(StartOrder[i])
        /\ IF i < Len(StartOrder)
           THEN /\ agentPc' = <<"start", i + 1>>
                /\ UNCHANGED <<agentRunning, lastCall>>
           ELSE /\ agentPc' = <<"idle", 0>>
                /\ agentRunning' = TRUE
                /\ Called("Agent.start", "ran")
        /\ UNCHANGED <<lockHolder, lockFile, other>>

\* Agent.start when the start of the tailer or of the FIM raises (the
\* observer cannot be started): the exception leaves Agent.start, which has
\* no handler for it; _running stays False, the lock and the components
\* started before stay as they are; the FIM has built its baseline by then
agent_start_raise ==
    \E i \in 2..Len(StartOrder) :
        /\ agentPc = <<"start", i>>
        /\ pc["c"] = "idle"
        /\ CASE StartOrder[i] = "watcher" ->
                 /\ watch_paths /\ ~watching
                 /\ UNCHANGED <<tailVars, progVars, serverMode, shipVars,
                                histVars>>
             [] StartOrder[i] = "fim" ->
                 /\ fim_enabled /\ ~fimRunning
                 /\ baselines' = IF get_all_baselines(baselines) = {<<>>}
                                  THEN build_baseline(baselines, present, wall)
                                  ELSE baselines
                 /\ lastSet' = StoreView(baselines')
                 /\ UNCHANGED <<bufVars, cfgVars, gateVars, fimRunning,
                                fimCount, verifyOut, fimLast, serverMode,
                                shipVars, histVars, tailVars>>
        /\ agentPc' = <<"idle", 0>>
        /\ Called("Agent.start", "raised")
        /\ UNCHANGED <<agentRunning, lockHolder, lockFile, other>>

\* Agent.stop up to the component stops: returns at once when not running
agent_stop ==
    /\ agentPc = <<"idle", 0>>
    /\ pc["c"] = "idle"
    /\ Skip
    /\ IF ~agentRunning
       THEN /\ Called("Agent.stop", "returned")
            /\ UNCHANGED agentPc
       ELSE /\ agentPc' = <<"stop", 1>>
            /\ UNCHANGED lastCall
    /\ UNCHANGED <<agentRunning, lockHolder, lockFile, other>>

\* Agent.stop: the next component stop, once the one before has returned
agent_stop_step ==
    \E i \in 1..Len(StopOrder) :
        /\ agentPc = <<"stop", i>>
        /\ pc["c"] = "idle"
        /\ ComponentStop(StopOrder[i])
        /\ agentPc' = IF i < Len(StopOrder) THEN <<"stop", i + 1>>
                                            ELSE <<"release", 0>>
        /\ UNCHANGED <<agentRunning, lockHolder, lockFile, other, lastCall>>

\* Agent.stop after the component stops: _running = False, the lock released
agent_stop_release ==
    /\ agentPc = <<"release", 0>>
    /\ pc["c"] = "idle"
    /\ agentRunning' = FALSE
    /\ release("p1")
    /\ agentPc' = <<"idle", 0>>
    /\ Called("Agent.stop", "ran")
    /\ Skip
    /\ UNCHANGED other

\* a component's start() or stop() called on its own, as the tests do
component_call(op, body, noop) ==
    /\ agentPc = <<"idle", 0>>
    /\ pc["c"] = "idle"
    /\ body
    /\ Called(op, IF noop THEN "returned" ELSE "ran")
    /\ UNCHANGED <<agentPc, agentRunning, lockHolder, lockFile, other>>

shipper_start_call == component_call("HTTPShipper.start", HTTPShipper_start, running)

shipper_stop_call == component_call("HTTPShipper.stop", HTTPShipper_stop, ~running)

watcher_start_call == component_call("FileWatcher.start", FileWatcher_start, watching)

watcher_stop_call == component_call("FileWatcher.stop", FileWatcher_stop, ~watching)

fim_start_call ==
    component_call("FileIntegrityMonitor.start", FileIntegrityMonitor_start,
                   fimRunning \/ ~fim_enabled)

fim_stop_call ==
    component_call("FileIntegrityMonitor.stop", FileIntegrityMonitor_stop,
                   ~fimRunning)

\* an agent on an empty buffer, with or without watch paths and FIM, next to
\* a second agent process
InitSup ==
    /\ apiKey = TRUE
    /\ batch_size = 1
    /\ watch_paths \in BOOLEAN
    /\ fim_enabled \in BOOLEAN
    /\ wall = 0
    /\ MoreInit
    /\ serverMode = "ok"
    /\ ShipperInit
    /\ content = [f \in Paths |-> <<>>]
    /\ present = {}
    /\ WatcherInit
    /\ AgentInit
    /\ FimInit

\* the shipper's worker on an empty buffer and the caller's part of stop()
ShipperIdle ==
    \/ async_loop_idle
    \/ check_connection
    \/ async_loop_exit
    \/ stop_joined
    \/ \E t \in Threads : status_check(t)
    \/ \E t \in Threads : status_assign(t)
    \/ \E t \in Threads : status_notify(t)

NextSup ==
    \/ agent_start
    \/ agent_start_step
    \/ agent_stop
    \/ agent_stop_step
    \/ agent_stop_release
    \/ other_start
    \/ other_stop
    \/ ShipperIdle

SpecSup == InitSup /\ [][NextSup]_vars

\* the agent when a component start can fail, with main()'s stop after it
NextFail ==
    \/ agent_start
    \/ agent_start_step
    \/ agent_start_raise
    \/ agent_stop
    \/ agent_stop_step
    \/ agent_stop_release
    \/ other_start
    \/ other_stop
    \/ ShipperIdle

SpecFail == InitSup /\ [][NextFail]_vars

\* the same agent, with watch paths, whose owner also calls the components'
\* start and stop
InitCalls == InitSup /\ watch_paths

NextCalls ==
    \/ agent_start
    \/ agent_start_step
    \/ agent_stop
    \/ agent_stop_step
    \/ agent_stop_release
    \/ shipper_start_call
    \/ shipper_stop_call
    \/ watcher_start_call
    \/ watcher_stop_call
    \/ fim_start_call
    \/ fim_stop_call
    \/ ShipperIdle

SpecCalls == InitCalls /\ [][NextCalls]_vars

\* ------------------------------------------------------------------ claims
Attempts(rows, id) == (CHOOSE e \in rows : e.id = id).attempts

\* C1: an entry leaves the buffer only in a step after which its id is part of
\* a POST that was answered 200; no failed send deletes an entry.
C1_RemovedOnlyAfterAck ==
    [][\A e \in events : e.id \notin Ids(events') => e.id \in BatchIds(received')]_vars

\* an entry was delivered and removed while another one, whose send failed,
\* is still buffered
C1_Witness ==
    /\ Len(received) > 0
    /\ \E e \in events : e.attempts > 0
    /\ BatchIds(received) \cap Ids(events) = {}

AllDelivered == events = {} /\ \A id \in 1..(nextId - 1) : id \in Acked

\* C2 as stated: once the server answers 200 to every POST from some point
\* on, every enqueued record is acknowledged and the buffer becomes empty.
C2_Orig == <>[](serverMode = "ok") => <>[]AllDelivered

\* C2 amended: the same, provided an API key is configured.
C2_NoSilentLoss == (apiKey /\ <>[](serverMode = "ok")) => <>[]AllDelivered

\* every record was enqueued, the buffer is empty, all were acknowledged
C2_Witness == apiKey /\ nextId = MaxEnq + 1 /\ AllDelivered /\ Len(received) = MaxEnq

\* C3: with an API key and no 401 answer, no entry stays buffered with more
\* than max_attempts failed sends: it is evicted when it reaches max_attempts.
C3_Orig == \A e \in events : e.attempts <= MaxAttempts

\* C4: after a 401 answer the attempts counters of the batch are unchanged.
C4_Orig ==
    [][(pc["w"] = "failed" /\ outcome = "401" /\ pc'["w"] # "failed")
        => events' = events]_vars

\* the min(n, count) rows with the smallest ids, by ascending id
RECURSIVE OldestById(_, _)
OldestById(rows, n) ==
    IF n = 0 \/ rows = {} THEN <<>>
    ELSE LET f == CHOOSE e \in rows : \A o \in rows : e.id <= o.id
         IN <<[id |-> f.id, event_type |-> f.event_type, data |-> f.data]>>
            \o OldestById(rows \ {f}, n - 1)

\* C5: get_batch(limit) returns the min(limit, count()) entries with the
\* smallest ids in ascending id order, whatever the recorded wall-clock values.
C5_Orig == \A limit \in 0..(MaxEnq + 1) : get_batch(events, limit) = OldestById(events, limit)

\* C6: log records of one file reach the server in the order of their lines.
C6_Orig ==
    \A i, j \in 1..Len(received) :
        (/\ i < j
         /\ received[i].event_type = "log"
         /\ received[j].event_type = "log"
         /\ received[i].data.file_path = received[j].data.file_path)
        => received[i].data.line < received[j].data.line

\* C7: killing the process and opening the buffer again on the same file
\* leaves count(), the batches and the attempts counters as they were.
C7_Persistence ==
    [][KillAndReopen =>
        /\ count(events') = count(events)
        /\ \A limit \in 1..MaxEnq : get_batch(events', limit) = get_batch(events, limit)
        /\ \A e \in events : Attempts(events', e.id) = e.attempts]_vars

\* after a restart the buffer holds two entries, one of them with a failed send
C7_Witness ==
    /\ restarted
    /\ Cardinality(events) = 2
    /\ \E e \in events : e.attempts > 0
    /\ pc["w"] = "none"

InSetter(t) == pc[t] \in {"set_check", "set_assign", "set_notify"}

\* C8: the observer never gets the same value twice in a row, and the last
\* value it got is the current status whenever no setter call is under way.
C8_Orig ==
    /\ ~obsRepeat
    /\ ((\A t \in Threads : ~InSetter(t)) /\ observed # "none") => observed = status

\* C9: no record is emitted for content a file had when the tailer started:
\* a record of a file that was not replaced since starts at or after the size
\* the file had at the start.
C9_Orig ==
    \A i \in 1..Len(emitted) :
        emitted[i].gen = 0 => emitted[i].offset >= preLen[emitted[i].file_path]

\* the lines of text without their terminators, in order, blank ones left out
LineStarts(text) == {i \in 1..Len(text) : i = 1 \/ text[i - 1] = NL}

LineFrom(text, i) ==
    LET stop_at == CHOOSE k \in i..(Len(text) + 1) :
                       /\ k = Len(text) + 1 \/ text[k] = NL
                       /\ \A j \in i..(k - 1) : text[j] # NL
    IN SubSeq(text, i, stop_at - 1)

RECURSIVE LinesFromStarts(_, _)
LinesFromStarts(text, starts) ==
    IF starts = {} THEN <<>>
    ELSE LET i == CHOOSE m \in starts : \A o \in starts : m <= o
             l == LineFrom(text, i)
         IN (IF \E j \in 1..Len(l) : l[j] # " " THEN <<l>> ELSE <<>>)
            \o LinesFromStarts(text, starts \ {i})

NonBlankLinesOf(text) == LinesFromStarts(text, LineStarts(text))

Messages(records) ==
    [i \in 1..Len(records) |-> <<records[i].file_path, records[i].message>>]

\* C10: a drain that finds the file smaller than the stored offset emits
\* exactly the non-blank lines of the file's current content, in order, and
\* stores the end of the file as the new offset.
C10_Rotation ==
    [][\A f \in Paths :
        (on_modified(f) /\ f \in present /\ Len(content[f]) < StoredPos(positions, f))
        => /\ Messages(emitted') =
                Messages(emitted) \o
                [i \in 1..Len(NonBlankLinesOf(content[f])) |->
                    <<f, NonBlankLinesOf(content[f])[i]>>]
           /\ positions'[f] = Len(content[f])]_vars

\* a drain found a file that is shorter than the stored offset and emitted
\* a line of the new content
C10_Witness ==
    /\ lastRead.file_path \in Paths
    /\ lastRead.size < lastRead.pos
    /\ Len(emitted) > 1
    /\ emitted[Len(emitted)].file_path = lastRead.file_path
    /\ emitted[Len(emitted)].gen > 0
    /\ positions[lastRead.file_path] = lastRead.size

\* the records emitted for file f, in order
FileRecords(f) == SelectSeq(emitted, LAMBDA r : r.file_path = f)

\* C11: for a file that is only appended to, the drains so far returned each
\* non-blank line of the part read exactly once and in file order: whenever
\* the stored offset stands at the end of a line, the records of the file are
\* the non-blank lines of the content before that offset.
C11_Orig ==
    \A f \in present :
        LET k == StoredPos(positions, f) IN
        (/\ gen[f] = 0
         /\ k <= Len(content[f])
         /\ k = 0 \/ content[f][k] = NL)
        => [i \in 1..Len(FileRecords(f)) |-> FileRecords(f)[i].message]
               = NonBlankLinesOf(SubSeq(content[f], 1, k))

\* C20: the baseline store holds at most one entry per path; get_baseline
\* answers the hash and metadata of the last set_baseline of the path that no
\* remove_baseline followed, None otherwise; a set keeps the created_at of an
\* existing entry and writes the time of the call as updated_at; a call on one
\* path leaves the entries of the other paths as they were.
C20_BaselineStore ==
    /\ [](\A r, q \in baselines : r.file_path = q.file_path => r = q)
    /\ [](\A f \in Paths :
            /\ get_baseline(baselines, f) =
                   IF lastSet[f] = <<>> THEN <<>> ELSE SubSeq(lastSet[f], 1, 2)
            /\ lastSet[f] # <<>> => RowOf(baselines, f).updated_at = lastSet[f][3])
    /\ [][\A f \in Paths :
            /\ (HasRow(baselines, f) /\ HasRow(baselines', f))
                   => RowOf(baselines', f).created_at = RowOf(baselines, f).created_at
            /\ (~HasRow(baselines, f) /\ HasRow(baselines', f))
                   => RowOf(baselines', f).created_at = RowOf(baselines', f).updated_at
            /\ lastSet'[f] = lastSet[f]
                   => {r \in baselines' : r.file_path = f}
                          = {r \in baselines : r.file_path = f}]_vars

\* both paths have an entry; the one of p was set again later with another
\* hash, so its updated_at has moved on from its created_at
C20_Witness ==
    /\ \A f \in Paths : HasRow(baselines, f)
    /\ RowOf(baselines, "p").updated_at > RowOf(baselines, "p").created_at
    /\ RowOf(baselines, "p").hash # RowOf(baselines, "q").hash

\* C12: a modify event on a baselined file whose content hash equals the
\* stored baseline hash hands no event to on_event, enqueues nothing and
\* leaves the baseline entry (hash, metadata, updated_at) as it was.
C12_QuietWrite ==
    [][\A f \in Paths :
        (/\ fim_on_modified(f)
         /\ HasRow(baselines, f)
         /\ compute_file_hash(f) = RowOf(baselines, f).hash)
        => /\ fimCount' = fimCount
           /\ fimLast'.events = <<>>
           /\ events' = events
           /\ baselines' = baselines]_vars

\* the last handler call was a modify event that was suppressed, for a file
\* that was written after the monitor started
C12_Witness ==
    /\ fimLast.kind = "modified"
    /\ fimLast.did = "quiet"
    /\ HasRow(baselines, fimLast.file_path)
    /\ gen[fimLast.file_path] > 0
    /\ fimCount = 0

EventsFor(evs, f) == {i \in 1..Len(evs) : evs[i].file_path = f}

\* C19: verify_baseline returns, for every baseline entry, exactly one
\* 'deleted' event if the file is gone (and removes the entry), exactly one
\* 'modified' event with the stored hash as previous_hash and the new hash as
\* current_hash if the hash differs (and upserts the entry), no event if the
\* hash is the same; every returned event has metadata verification = true.
C19_VerifyBaseline ==
    [][verify_baseline =>
        /\ \A r \in baselines :
            LET f == r.file_path
                idx == EventsFor(verifyOut', f)
                ev == verifyOut'[CHOOSE i \in idx : TRUE]
            IN IF f \notin present
               THEN /\ Cardinality(idx) = 1
                    /\ ev.event_type = "deleted"
                    /\ ev.previous_hash = r.hash
                    /\ ev.current_hash = <<>>
                    /\ ~HasRow(baselines', f)
               ELSE IF compute_file_hash(f) # r.hash
               THEN /\ Cardinality(idx) = 1
                    /\ ev.event_type = "modified"
                    /\ ev.previous_hash = r.hash
                    /\ ev.current_hash = compute_file_hash(f)
                    /\ get_baseline(baselines', f) =
                           <<compute_file_hash(f), get_file_metadata(f)>>
               ELSE /\ idx = {}
                    /\ r \in baselines'
        /\ \A i \in 1..Len(verifyOut') :
            /\ verifyOut'[i].metadata[1] = <<"verification", TRUE>>
            /\ HasRow(baselines, verifyOut'[i].file_path)]_vars

\* a verification returned a 'deleted' and a 'modified' event and left the
\* entry of the modified file only
C19_Witness ==
    /\ Len(verifyOut) = 2
    /\ \E i, j \in 1..2 :
        /\ verifyOut[i].event_type = "deleted"
        /\ verifyOut[j].event_type = "modified"
        /\ ~HasRow(baselines, verifyOut[i].file_path)
        /\ HasRow(baselines, verifyOut[j].file_path)

LineOf(i) == <<emitted[i].file_path, emitted[i].gen, emitted[i].offset>>

\* C14: a drain made while paused advances the stored offset to the end of
\* the file, and no line drained while paused is enqueued later: no record in
\* the buffer stands for a line for which an earlier on_event call returned
\* at the gate.
C14_NoReplay ==
    /\ [][\A f \in Paths :
            (paused /\ log_on_modified(f) /\ f \in present)
            => positions'[f] = Len(content[f])]_vars
    /\ [](\A d \in dropped : \A e \in events :
            (d[1] = "log" /\ e.event_type = "log" /\ e.data.line > d[2])
            => LineOf(e.data.line) # LineOf(d[2]))

\* the newest call in a record of calls
Newest(calls) ==
    IF calls = <<>> THEN [op |-> "none", how |-> "none"] ELSE calls[Len(calls)]

\* C15: at most one process holds the single-instance lock; an Agent.start
\* made while the other process holds it raises RuntimeError and starts no
\* component, and the holder keeps the lock; no component of this process
\* runs unless this process holds the lock.
C15_SingleInstance ==
    /\ [](Cardinality(lockHolder) <= 1)
    /\ []((running \/ watching \/ fimRunning \/ WorkerAlive)
            => lockHolder = {"p1"})
    /\ [][(agent_start /\ ~agentRunning /\ "p2" \in lockHolder)
            => /\ Newest(lastCall') = [op |-> "Agent.start", how |-> "raised"]
               /\ agentPc' = <<"idle", 0>>
               /\ lockHolder' = {"p2"}
               /\ UNCHANGED <<running, watching, fimRunning, pc, agentRunning>>]_vars
    /\ [][(other_start /\ "p1" \in lockHolder)
            => (other' = "raised" /\ lockHolder' = {"p1"})]_vars

\* an Agent.start of this process has raised while the second process holds
\* the lock, and nothing of this process runs
C15_Witness ==
    /\ lockHolder = {"p2"}
    /\ Newest(lastCall) = [op |-> "Agent.start", how |-> "raised"]
    /\ ~running /\ ~watching /\ ~fimRunning /\ ~WorkerAlive

\* C16: an acquire that fails because another process holds the lock leaves
\* the contents of the lock file as they were, the PID of the holder.
C16_Orig ==
    [][((agent_start /\ ~agentRunning /\ ~flock(lockHolder, "p1"))
          \/ (other_start /\ ~flock(lockHolder, "p2")))
        => /\ lockFile' = lockFile
           /\ lockFile' \in lockHolder']_vars

\* C17: Agent.start starts the shipper, then the tailer, then the FIM, and
\* Agent.stop stops the FIM, then the tailer, then the shipper: whenever the
\* tailer or the FIM runs, the shipper runs and its stop event is not set.
C17_Ordering ==
    /\ []((watching \/ fimRunning) => (running /\ ~stopEvent))
    /\ [][(~running /\ running') => (~watching /\ ~fimRunning)]_vars
    /\ [][(~watching /\ watching') => (running /\ ~fimRunning)]_vars
    /\ [][(~fimRunning /\ fimRunning') => (running /\ watching = watch_paths)]_vars
    /\ [][(fimRunning /\ ~fimRunning')
            => (running /\ ~stopEvent /\ watching = watch_paths)]_vars
    /\ [][(watching /\ ~watching') => (running /\ ~stopEvent /\ ~fimRunning)]_vars
    /\ [][(~stopEvent /\ stopEvent') => (~watching /\ ~fimRunning)]_vars

\* Agent.stop has stopped the FIM and the tailer, both of which ran, and is
\* about to stop the shipper, which still runs
C17_Witness ==
    /\ agentPc = <<"stop", 3>>
    /\ watch_paths /\ fim_enabled
    /\ ~watching /\ ~fimRunning
    /\ running /\ ~stopEvent /\ WorkerAlive

\* the state of the program apart from the record of the calls
AllButCalls ==
    <<tailVars, progVars, serverMode, shipVars, histVars, agentPc, agentRunning,
      lockHolder, lockFile, other>>

\* C18: Agent.stop and each component's stop change nothing when the target
\* does not run, each component's start changes nothing when the target
\* runs, and a start always leaves the component running, also after a stop.
C18_Idempotent ==
    /\ [][(agent_stop /\ ~agentRunning) => UNCHANGED AllButCalls]_vars
    /\ [][(shipper_stop_call /\ ~running) => UNCHANGED AllButCalls]_vars
    /\ [][(watcher_stop_call /\ ~watching) => UNCHANGED AllButCalls]_vars
    /\ [][(fim_stop_call /\ ~fimRunning) => UNCHANGED AllButCalls]_vars
    /\ [][(shipper_start_call /\ running) => UNCHANGED AllButCalls]_vars
    /\ [][(watcher_start_call /\ watching) => UNCHANGED AllButCalls]_vars
    /\ [][(fim_start_call /\ fimRunning) => UNCHANGED AllButCalls]_vars
    /\ [][shipper_start_call => (running' /\ ~stopEvent' /\ WorkerAlive')]_vars
    /\ [][watcher_start_call => watching']_vars
    /\ [][(fim_start_call /\ fim_enabled) => fimRunning']_vars

\* the running shipper was stopped and then started again, and runs
C18_Witness ==
    /\ lastCall = <<[op |-> "HTTPShipper.stop", how |-> "ran"],
                    [op |-> "HTTPShipper.start", how |-> "ran"]>>
    /\ running /\ WorkerAlive

\* C23: after a send attempt the status follows from its outcome: 200 gives
\* CONNECTED and the batch is removed; a connect error or timeout gives
\* DISCONNECTED; any other response, a missing API key (no POST) or another
\* exception gives ERROR; whenever the outcome is not 200 every entry of the
\* batch stays in the buffer.
C23_StatusByOutcome ==
    /\ [](pc["w"] = "failed"
            => /\ outcome \in {"transport", "401", "5xx", "other", "nokey"}
               /\ status = (IF outcome = "transport" THEN DISCONNECTED ELSE ERROR)
               /\ BatchIds(batch) \subseteq Ids(events))
    /\ [][async_loop_failed => Ids(events') = Ids(events)]_vars
    /\ [][(outcome # "nokey" /\ outcome' = "nokey")
            => (~apiKey /\ pc["w"] = "loop" /\ received' = received)]_vars
    /\ [][send_batch_ok
            => /\ Ids(events') = Ids(events) \ BatchIds(batch)
               /\ setval'["w"] = CONNECTED]_vars
    /\ [][(InSetter("w") /\ pc'["w"] = setret["w"]) => status' = setval["w"]]_vars

\* a send attempt has ended with a transport error: the status is
\* DISCONNECTED and the batch is still buffered
C23_Witness ==
    /\ pc["w"] = "failed"
    /\ outcome = "transport"
    /\ status = DISCONNECTED
    /\ batch # <<>>
    /\ BatchIds(batch) \subseteq Ids(events)

\* C25: once stop() has returned on a join timeout, the worker changes
\* nothing about the entries of the batch whose POST was in flight: none is
\* removed and no attempts counter moves.
C25_Orig ==
    [][(~running /\ pc["c"] = "idle" /\ WorkerAlive /\ batch # <<>>)
        => {e \in events' : e.id \in BatchIds(batch)}
           = {e \in events : e.id \in BatchIds(batch)}]_vars

\* C24: after the k-th send attempt in a row that failed on a transport
\* error the worker waits min(retry_backoff_seconds * 2^k, 60) seconds, and
\* a successful send sets the backoff back to retry_backoff_seconds.
C24_Orig ==
    /\ [][async_loop_failed
            => wait_time(batch)
               = Min(retry_backoff_seconds * 2^streak', MaxRetryDelay)]_vars
    /\ [][send_batch_ok => retryDelay' = retry_backoff_seconds]_vars

\* C21: a GET for notifications is sent only when the status is CONNECTED,
\* and the clock reads at least 30 s more than at the GET before, whether
\* that one was answered 200 or not.
C21_PollRate ==
    [][(notifCycle' # notifCycle \/ lastNotificationCheck' # lastNotificationCheck)
        => /\ status = CONNECTED
           /\ notifCycle'.at = wall
           /\ lastNotificationCheck' = wall
           /\ notifCycle'.before = notifCycle.at
           /\ notifCycle.at # 0 => wall - notifCycle.at >= PollInterval]_vars

\* a GET that was not answered was followed, 30 s later, by a second GET
C21_Witness ==
    /\ notifCycle.before # 0
    /\ notifCycle.beforeAnswer = "exception"
    /\ notifCycle.at - notifCycle.before = PollInterval
    /\ lastNotificationCheck = notifCycle.at

\* C22: on a 200 answer every notification of the list gets, in list order,
\* one on_notification(title, message, severity) call and then one ack POST
\* for its id, whether or not earlier acks failed; nothing else is called.
C22_NotifyAndAck ==
    LET l == notifCycle.notifications
        calls == notifCycle.calls
    IN /\ Len(calls) = 2 * Len(l)
       /\ \A i \in 1..Len(l) :
            /\ calls[2 * i - 1]
               = <<"on_notification", l[i].title, l[i].message, l[i].severity>>
            /\ calls[2 * i][1] = "ack"
            /\ calls[2 * i][2] = l[i].id
       /\ notifCycle.answer # "200" => calls = <<>>

\* the ack of the first of two notifications failed, and the second one was
\* handed to the callback and acked
C22_Witness ==
    /\ notifCycle.answer = "200"
    /\ Len(notifCycle.notifications) = 2
    /\ Len(notifCycle.calls) = 4
    /\ notifCycle.calls[2][3] = "exception"
    /\ notifCycle.calls[4][3] = "acked"

\* C26: compute_file_hash gives 'sha256:' and a digest; two files of the same
\* bytes get the same hash and two files of different bytes (one byte
\* changed, among others) different hashes; a file that cannot be opened
\* gets None. The hashes stored by build_baseline are these.
C26_FileHash ==
    /\ \A f \in Paths :
         IF CanOpen(f)
         THEN compute_file_hash(f) # <<>> /\ Head(compute_file_hash(f)) = "sha256"
         ELSE compute_file_hash(f) = <<>>
    /\ \A f, g \in Paths :
         CanOpen(f) /\ CanOpen(g)
            => (compute_file_hash(f) = compute_file_hash(g) <=> content[f] = content[g])

\* two readable files of the same length, more than one read long, that
\* differ in their last byte, and the baseline has a hash for both
C26_Witness ==
    /\ CanOpen("p") /\ CanOpen("q")
    /\ Len(content["p"]) = MaxBytes /\ Len(content["q"]) = MaxBytes
    /\ SubSeq(content["p"], 1, MaxBytes - 1) = SubSeq(content["q"], 1, MaxBytes - 1)
    /\ content["p"][MaxBytes] # content["q"][MaxBytes]
    /\ get_baseline(baselines, "p") # <<>>
    /\ get_baseline(baselines, "q") # <<>>
    /\ get_baseline(baselines, "p")[1] # get_baseline(baselines, "q")[1]

\* C27: every 'modified' event of the live handler carries two hashes, the
\* hash the baseline had before and the hash it has after, and they differ;
\* also for a path that had no baseline entry.
C27_Orig ==
    [][\A f \in Paths :
         fim_on_modified(f)
            => \A i \in 1..Len(fimLast'.events) :
                 LET ev == fimLast'.events[i] IN
                 /\ ev.previous_hash # <<>>
                 /\ ev.current_hash # <<>>
                 /\ ev.previous_hash # ev.current_hash
                 /\ get_baseline(baselines, f) # <<>>
                 /\ ev.previous_hash = get_baseline(baselines, f)[1]
                 /\ ev.current_hash = get_baseline(baselines', f)[1]]_vars

\* C28: the live handler of a delete leaves no baseline entry for the path,
\* leaves the other entries alone and emits one 'deleted' event, with the
\* stored hash as previous_hash (None when there was no entry) and no
\* current_hash.
C28_LiveDelete ==
    [][\A f \in Paths :
         fim_on_deleted(f)
            => /\ get_baseline(baselines', f) = <<>>
               /\ \A g \in Paths \ {f} : get_baseline(baselines', g) = get_baseline(baselines, g)
               /\ Len(fimLast'.events) = 1
               /\ fimCount' = fimCount + 1
               /\ LET ev == fimLast'.events[1] IN
                  /\ ev.event_type = "deleted"
                  /\ ev.file_path = f
                  /\ ev.current_hash = <<>>
                  /\ ev.previous_hash = (IF get_baseline(baselines, f) # <<>>
                                         THEN get_baseline(baselines, f)[1] ELSE <<>>)]_vars

\* a delete of a path with an entry was handled while the other path kept its
\* entry
C28_Witness ==
    /\ fimLast.kind = "deleted"
    /\ fimLast.events # <<>>
    /\ fimLast.events[1].previous_hash # <<>>
    /\ get_baseline(baselines, fimLast.file_path) = <<>>
    /\ \E g \in Paths : get_baseline(baselines, g) # <<>>

\* C29: owner and permissions of a 'deleted' event of the live handler come
\* from the stat of the file if it exists when the event is made, else from
\* the metadata stored with its baseline.
C29_Orig ==
    [][\A f \in Paths :
         fim_on_deleted(f)
            => \A i \in 1..Len(fimLast'.events) :
                 LET ev == fimLast'.events[i]
                     from == IF f \in present THEN get_file_metadata(f)
                             ELSE IF get_baseline(baselines, f) # <<>>
                             THEN get_baseline(baselines, f)[2] ELSE <<>>
                 IN /\ ev.file_owner = file_owner_of(from)
                    /\ ev.file_permissions = dict_get(from, "mode", "")]_vars

\* C30: no baseline entry has an empty hash; a handler, a build or a
\* verification that cannot hash a file writes no entry for it, leaves the
\* entry it has alone and emits no event for it.
C30_NoEmptyHash ==
    /\ [](\A r \in baselines : r.hash # <<>> /\ Head(r.hash) = "sha256")
    /\ [][/\ \A f \in Paths :
               (/\ fimPending # <<>>
                /\ Head(fimPending) \in {<<"created", f>>, <<"modified", f>>}
                /\ compute_file_hash(f) = <<>>
                /\ (fim_on_created(f) \/ fim_on_modified(f)))
                  => /\ baselines' = baselines
                     /\ fimLast'.events = <<>>
                     /\ events' = events
          /\ \A f, g \in Paths :
               (/\ IsNext(fimPending, "moved", <<f, g>>)
                /\ compute_file_hash(g) = <<>>
                /\ fim_on_moved(f, g))
                  => /\ get_baseline(baselines', g) = get_baseline(baselines, g)
                     /\ \A i \in 1..Len(fimLast'.events) :
                           fimLast'.events[i].file_path # g
          /\ (fimPending' = fimPending /\ writes' = writes /\ fim_build_baseline)
                  => \A f \in Paths :
                       compute_file_hash(f) = <<>>
                          => get_baseline(baselines', f) = get_baseline(baselines, f)
          /\ (fimPending' = fimPending /\ writes' = writes /\ verify_baseline)
                  => \A f \in present :
                       compute_file_hash(f) = <<>>
                          => /\ get_baseline(baselines', f) = get_baseline(baselines, f)
                             /\ \A i \in 1..Len(verifyOut') :
                                   verifyOut'[i].file_path # f]_vars

\* the handler of a modification could not hash a file that is there and has
\* an entry, and the entry is the one of the readable file
C30_Witness ==
    /\ fimLast.kind = "modified"
    /\ fimLast.did = "nohash"
    /\ fimLast.file_path \in present
    /\ st_mode[fimLast.file_path] = Unreadable
    /\ get_baseline(baselines, fimLast.file_path) # <<>>

\* C31: the status is assigned and on_status_change is called by the worker
\* thread only; the thread that calls start() or stop() never runs the setter.
C31_Orig == \A t \in Threads \ {"w"} : ~InSetter(t)

\* C39: once stop() has returned and until the next start(), the status is
\* DISCONNECTED and on_status_change is not called, also when the join timed
\* out and the worker is still alive.
C39_Orig ==
    /\ []((~running /\ pc["c"] = "idle") => status = DISCONNECTED)
    /\ [][(~running /\ ~running' /\ pc["c"] = "idle" /\ pc'["c"] = "idle")
            => observed' = observed]_vars

\* C40: the worker goes to the health probe only from an iteration whose
\* batch was empty and whose status was not CONNECTED; a status that is
\* CONNECTED changes only when a send attempt with a batch begins, and a
\* notification poll, failed or not, leaves status and callback alone.
C40_ProbeOnlyUnconnected ==
    /\ [][(pc["w"] # "probe" /\ pc'["w"] = "probe")
            => (status # CONNECTED /\ get_batch(events, batch_size) = <<>>)]_vars
    /\ [][(status = CONNECTED /\ status' # CONNECTED)
            => (batch # <<>> /\ setret["w"] \in {"post", "failed"})]_vars
    /\ [][notifCycle' # notifCycle
            => (status' = status /\ observed' = observed /\ pc' = pc)]_vars

\* a poll failed while the status was CONNECTED and the buffer empty, and the
\* status is still CONNECTED with the worker back at the top of the loop
C40_Witness ==
    /\ status = CONNECTED
    /\ notifCycle.answer = "exception"
    /\ events = {}
    /\ serverMode = "down"
    /\ pc["w"] = "loop"

\* C32: a drain whose open() fails emits no record and leaves the stored
\* offset of the file as it was (the offset on_created has just set, for a
\* create event); the drain of the next event that can read the file starts
\* at that offset and emits the lines from there on.
C32_IoError ==
    [][\A f \in Paths :
         /\ (/\ IsNext(pending, "modified", f)
             /\ f \in present /\ st_mode[f] = Unreadable
             /\ on_modified(f))
               => (emitted' = emitted /\ positions' = positions)
         /\ (/\ IsNext(pending, "created", f)
             /\ f \in present /\ st_mode[f] = Unreadable
             /\ on_created(f))
               => (emitted' = emitted /\ positions' = Put(positions, f, 0))
         /\ (/\ IsNext(pending, "modified", f)
             /\ f \in present /\ st_mode[f] = Readable
             /\ lastRead.file_path = f
             /\ lastRead.pos = StoredPos(positions, f)
             /\ lastRead.pos <= Len(content[f])
             /\ on_modified(f))
               => LET rest == NonBlankLinesOf(SubSeq(content[f], lastRead.pos + 1,
                                                     Len(content[f])))
                  IN Messages(emitted') =
                        Messages(emitted) \o [i \in 1..Len(rest) |-> <<f, rest[i]>>]]_vars

\* the event of a file that cannot be read was handled: the file has text
\* beyond its stored offset, the offset is the one the drain found, and
\* nothing is waiting in the observer's queue
C32_Witness ==
    /\ lastRead.file_path \in present
    /\ st_mode[lastRead.file_path] = Unreadable
    /\ lastRead.pos < lastRead.size
    /\ StoredPos(positions, lastRead.file_path) = lastRead.pos
    /\ pending = <<>>
    /\ watching

\* C33: the handler of a move whose source is tracked gives the offset of the
\* source to the destination, drops the source from the table, and drains the
\* destination: the lines of the destination beyond that offset are emitted.
C33_Orig ==
    [][\A f, g \in Paths :
         (/\ IsNext(pending, "moved", <<f, g>>)
          /\ f \in DOMAIN positions
          /\ g \in present /\ st_mode[g] = Readable
          /\ positions[f] <= Len(content[g])
          /\ on_moved(f, g))
            => LET rest == NonBlankLinesOf(SubSeq(content[g], positions[f] + 1,
                                                  Len(content[g])))
               IN /\ f \notin DOMAIN positions'
                  /\ Messages(emitted') =
                        Messages(emitted) \o [i \in 1..Len(rest) |-> <<g, rest[i]>>]]_vars

\* C34: the handler of a delete event drops the offset of the file and emits
\* nothing: afterwards the table has no entry for the path.
C34_Orig ==
    [][\A f \in Paths :
         (IsNext(pending, "deleted", f) /\ on_deleted(f))
            => (f \notin DOMAIN positions' /\ emitted' = emitted)]_vars

\* C36: the message of a record is a whole line of its file: as long as the
\* file is only appended to, the record begins where a line begins and holds
\* the text up to the terminator of that line.
C36_Orig ==
    \A i \in 1..Len(emitted) :
        LET f == emitted[i].file_path
            at == emitted[i].offset
        IN (f \in present /\ emitted[i].gen = gen[f] /\ at < Len(content[f]))
              => /\ (at + 1) \in LineStarts(content[f])
                 /\ emitted[i].message = LineFrom(content[f], at + 1)

\* C35: with the tailer and the FIM enqueueing while the shipper fetches,
\* removes and counts attempts, every id is given once: a new entry gets an
\* id above every id given before, removed ones included; an enqueue adds
\* its one entry and changes no other, a failed batch adds one attempt to
\* each of its entries and to no other, and count() is the number of
\* enqueues minus the number of removed entries.
C35_BufferAtomic ==
    /\ [](/\ \A e, o \in events : e.id = o.id => e = o
          /\ \A e \in events : e.id < nextId /\ e.id \notin Acked
          /\ \A i \in BatchIds(received) : i < nextId
          /\ count(events) = (nextId - 1) - Cardinality(Acked))
    /\ [][Ids(events') \ Ids(events) # {}
            => /\ \E e \in events' : /\ events' = events \cup {e}
                                     /\ e.attempts = 0
                                     /\ \A o \in events : o.id < e.id
                                     /\ \A i \in Acked : i < e.id
               /\ count(events') = count(events) + 1]_vars
    /\ [][(pc["w"] = "failed" /\ async_loop_failed)
            => /\ Ids(events') = Ids(events)
               /\ \A e \in events : \E o \in events' :
                    /\ o.id = e.id
                    /\ o.attempts = (IF e.id \in BatchIds(batch)
                                     THEN Min(e.attempts + 1, AttemptCap)
                                     ELSE e.attempts)
                    /\ o.data = e.data /\ o.event_type = e.event_type]_vars

\* a log entry was sent and removed; a FIM entry enqueued after it has an id
\* above the removed one and a failed send was counted for it
C35_Witness ==
    /\ Acked # {}
    /\ received[1].event_type = "log"
    /\ \E e \in events :
         /\ e.event_type = "fim"
         /\ e.attempts > 0
         /\ \A i \in Acked : i < e.id

\* C37: one change of the content of a monitored file gives at most one
\* 'modified' event with a given pair of hashes, from the live handler and
\* verify_baseline together: for a file that was rewritten once, the handler's
\* event and an event that verify_baseline returns never have the same pair.
C37_Orig ==
    \A f \in Paths :
        gen[f] = 1
           => ~ \E i \in 1..Len(fimLast.events), j \in 1..Len(verifyOut) :
                  /\ fimLast.events[i].event_type = "modified"
                  /\ verifyOut[j].event_type = "modified"
                  /\ fimLast.events[i].file_path = f
                  /\ verifyOut[j].file_path = f
                  /\ fimLast.events[i].previous_hash = verifyOut[j].previous_hash
                  /\ fimLast.events[i].current_hash = verifyOut[j].current_hash

\* C38: whenever a call of Agent.start or Agent.stop has returned or raised
\* and is_running() is false, this process does not hold the single-instance
\* lock and no shipper, tailer or FIM worker of it runs, also when start()
\* has failed part-way and stop() was called after it.
C38_Orig ==
    (agentPc = <<"idle", 0>> /\ ~agentRunning)
        => /\ "p1" \notin lockHolder
           /\ ~running /\ ~WorkerAlive
           /\ ~watching
           /\ ~fimRunning

====
